---------------------------- MODULE Spec2Model ----------------------------
(***************************************************************************)
(* Session establishment and state synchronisation of the two peer-to-peer *)
(* games of src/src/PongGame.tsx: the paddle game (component PongGame,     *)
(* lines 1-1177) and the chase game (component MultiSnake, lines           *)
(* 1178-2090).  Two browser pages run the same component: page "H" is      *)
(* opened without an offer in its URL (it can only create a game), page    *)
(* "G" is opened from the invite link (it can only accept the offer).      *)
(* endSession hands the page back to the menu (onExitToMenu), so one       *)
(* component instance runs at most one session; the timers and promises it *)
(* left pending still run afterwards.  A channel is closed by the other    *)
(* page ending its session.                                                *)
(*                                                                         *)
(* Lengths of the paddle game are kept in quarter pixels (SCALE), because  *)
(* the vertical ball velocity is ballSpeed / 2 and the speed slider moves  *)
(* in steps of 0.5.                                                        *)
(***************************************************************************)
EXTENDS Integers, Sequences, FiniteSets, TLC

(* ------------------------------ bounds -------------------------------- *)
MaxQueue == 2
MaxSteps == 2
MaxInputs == 2

(* ------------------------- program constants -------------------------- *)
CANVAS_WIDTH == 800
CANVAS_HEIGHT == 560
PADDLE_WIDTH == 60
PADDLE_HEIGHT == 88
BALL_SIZE == 16
DEFAULT_BALL_SPEED == 5
PADDLE_SPEED == 8
PADDLE_MARGIN == 20
COUNTDOWN_START == 3
COLS == 24
ROWS == 16
SCALE == 2 * 2

Px(n) == n * SCALE

Peers == {"H", "G"}
Other(p) == IF p = "H" THEN "G" ELSE "H"

Games == {"pong", "snake"}
Keys == {"ArrowUp", "ArrowDown"}
Directions == {"up", "down", "left", "right"}
BallSpeeds == {Px(DEFAULT_BALL_SPEED), Px(8)}
NoTimer == -1

VARIABLES
  game,            \* which component is mounted on both pages
  role,            \* role / roleRef
  gamePhase,       \* gamePhase (React state, used for rendering)
  gamePhaseRef,    \* gamePhaseRef.current (used by the logic)
  countdown,       \* countdown (React state)
  countdownTimer,  \* value the pending setTimeout will pass to tick, or NoTimer
  connected,       \* connected (React state)
  gameLoop,        \* paddle game: a requestAnimationFrame(updateGame) is pending
  interval,        \* chase game: intervalRef.current holds a running setInterval
  keys,            \* paddle game: keysRef.current
  ballSpeed,       \* paddle game: ballSpeed / ballSpeedRef.current
  face,            \* paddle game: <<hostFaceImageRef, guestFaceImageRef>> set?
  gameState,       \* gameStateRef.current
  scores,          \* scores (React state) / scoresRef.current
  dir1Ref,         \* chase game: dir1Ref.current
  dir2Ref,         \* chase game: dir2Ref.current
  pc,              \* peerConnectionRef / peerRef: 0 = null, i = the connection
                   \* of the session Sdps[i]
  chan,            \* readyState of dataChannelRef / channelRef ("none" = null)
  queue,           \* messages in flight to each peer, in order
  net,             \* the transport between the two pages is established
  closeEvt,        \* a close event is pending for the peer's channel
  pending,         \* the session while createGame / handleIncomingOffer awaits
                   \* waitForICE, 0 otherwise
  inviteLink,      \* inviteLink, as a sequence of characters
  answerCode,      \* answerCode, as a sequence of characters
  answerInput,     \* answerInput, as a sequence of characters
  status,          \* status (the texts without their diacritics)
  answered,        \* host: setRemoteDescription(answer) succeeded
  mounted,         \* the page still shows the game (no exit to the menu yet)
  steps,           \* number of updateGame / stepGame executions so far
  inputs,          \* number of key presses, slider moves and photos so far
  reachedPlaying,  \* history: the peer's gamePhaseRef has been "playing"
  solo             \* the state of component SnakeGame (src/src/SnakeGame.tsx)

phaseVars == <<gamePhase, gamePhaseRef, countdown, countdownTimer>>
pongVars  == <<keys, ballSpeed, face, gameLoop>>
snakeVars == <<interval, dir1Ref, dir2Ref>>
worldVars == <<gameState, scores>>
sigVars   == <<pc, pending, inviteLink, answerCode, answerInput, answered,
              mounted>>
netVars   == <<chan, queue, net, closeEvt>>
vars == <<game, role, connected, phaseVars, pongVars, snakeVars, worldVars,
          sigVars, status, netVars, steps, inputs, reachedPlaying,
          solo>>

(* ------------------------- initial world states ----------------------- *)
PongInitialState ==
  [ball |-> [x |-> Px(CANVAS_WIDTH) \div 2, y |-> Px(CANVAS_HEIGHT) \div 2,
             vx |-> Px(DEFAULT_BALL_SPEED), vy |-> Px(DEFAULT_BALL_SPEED) \div 2],
   paddle1Y |-> Px(CANVAS_HEIGHT) \div 2 - Px(PADDLE_HEIGHT) \div 2,
   paddle2Y |-> Px(CANVAS_HEIGHT) \div 2 - Px(PADDLE_HEIGHT) \div 2,
   score1 |-> 0, score2 |-> 0]

Cell(cx, cy) == [x |-> cx, y |-> cy]
InitialSnake1 == <<Cell(4, 8), Cell(3, 8), Cell(2, 8)>>
InitialSnake2 == <<Cell(COLS - 5, 8), Cell(COLS - 4, 8), Cell(COLS - 3, 8)>>

SnakeInitialState ==
  [snake1 |-> InitialSnake1, snake2 |-> InitialSnake2,
   dir1 |-> "right", dir2 |-> "left", food |-> Cell(12, 6),
   score1 |-> 0, score2 |-> 0, phase |-> "idle"]

\* component SnakeGame: the useState / useRef initial values.  The field used
\* is history: the direction the latest step used, "none" before the first
\* step of a game
SoloInitialState ==
  [snake |-> <<Cell(4, 8), Cell(3, 8), Cell(2, 8)>>,
   direction |-> "right", pendingDirection |-> "right",
   food |-> Cell(10, 8), score |-> 0,
   running |-> FALSE, gameOver |-> FALSE, used |-> "none"]

\* the two pages and the solo game as constructed
PagesInit ==
  /\ role = [p \in Peers |-> "none"]
  /\ gamePhase = [p \in Peers |-> "idle"]
  /\ gamePhaseRef = [p \in Peers |-> "idle"]
  /\ countdown = [p \in Peers |-> COUNTDOWN_START]
  /\ countdownTimer = [p \in Peers |-> NoTimer]
  /\ connected = [p \in Peers |-> FALSE]
  /\ gameLoop = [p \in Peers |-> FALSE]
  /\ interval = [p \in Peers |-> FALSE]
  /\ keys = [p \in Peers |-> {}]
  /\ ballSpeed = [p \in Peers |-> Px(DEFAULT_BALL_SPEED)]
  /\ face = [p \in Peers |-> [host |-> FALSE, guest |-> FALSE]]
  /\ gameState = [p \in Peers |->
                    IF game = "pong" THEN PongInitialState ELSE SnakeInitialState]
  /\ scores = [p \in Peers |-> [score1 |-> 0, score2 |-> 0]]
  /\ dir1Ref = [p \in Peers |-> "right"]
  /\ dir2Ref = [p \in Peers |-> "left"]
  /\ pc = [p \in Peers |-> 0]
  /\ chan = [p \in Peers |-> "none"]
  /\ queue = [p \in Peers |-> <<>>]
  /\ net = FALSE
  /\ closeEvt = [p \in Peers |-> FALSE]
  /\ pending = [p \in Peers |-> 0]
  /\ inviteLink = [p \in Peers |-> <<>>]
  /\ answerCode = [p \in Peers |-> <<>>]
  /\ answerInput = [p \in Peers |-> <<>>]
  /\ status = [p \in Peers |-> "Pripravene na vytvorenie hry"]
  /\ answered = [p \in Peers |-> FALSE]
  /\ mounted = [p \in Peers |-> TRUE]
  /\ steps = 0
  /\ inputs = 0
  /\ reachedPlaying = [p \in Peers |-> FALSE]
  /\ solo = SoloInitialState

Init == game \in Games /\ PagesInit


(* ------------------------------ helpers ------------------------------- *)
Max(a, b) == IF a >= b THEN a ELSE b
Min(a, b) == IF a <= b THEN a ELSE b
Abs(a) == IF a < 0 THEN -a ELSE a
Sign(a) == IF a > 0 THEN 1 ELSE IF a < 0 THEN -1 ELSE 0

isImmersive(p) == connected[p] \/ gamePhase[p] \in {"countdown", "playing"}

\* dataChannelRef.current?.readyState === "open"
channelOpen(p) == chan[p] = "open"

\* channel.send(...) of the messages msgs, in order, on the open channel of p
enqueue(p, msgs) == [queue EXCEPT ![Other(p)] = @ \o msgs]

\* if (dataChannelRef.current?.readyState === "open") send(...).  What is sent
\* after the other side has gone is lost.
send(p, msgs) == IF channelOpen(p) /\ net THEN enqueue(p, msgs) ELSE queue

\* bound: at most MaxQueue messages are in flight to a peer
CanSend(p, n) == Len(queue[Other(p)]) + n <= MaxQueue

PhaseMsg(ph) == [type |-> "phase", phase |-> ph]
CountdownMsg(v) == [type |-> "phase", phase |-> "countdown", countdown |-> v]
\* variant of SettingsMsg: the message carries the default speed
SettingsMsg_default(v) ==
  [type |-> "settings", ballSpeed |-> Px(DEFAULT_BALL_SPEED)]

SettingsMsg(v) == [type |-> "settings", ballSpeed |-> v]
StateMsg(s) == [type |-> "gameState", state |-> s]
InputMsg(d) == [type |-> "input", direction |-> d]
FaceMsg(t) == [type |-> t, data |-> TRUE]

(* --------------------------- the countdown ---------------------------- *)
\* variant of tick_phase: the last tick leaves the phase as it is
tick_phase_stays(cur, value) == cur

\* tick(value): the phase after the tick, given the phase before it
tick_phase(cur, value) == IF value <= 0 THEN "playing" ELSE cur

\* variant of tick_timer: the countdown skips a value
tick_timer_skips(value) == IF value <= 0 THEN NoTimer ELSE Max(0, value - 2)

\* tick(value): the timer left pending by the tick (the next tick's value)
tick_timer(value) == IF value <= 0 THEN NoTimer ELSE value - 1

\* variant of tick_msgs: "playing" is announced one tick early
tick_msgs_early(r, open, value) ==
  IF r = "host" /\ open
  THEN <<CountdownMsg(value)>>
         \o (IF value <= 1 THEN <<PhaseMsg("playing")>> ELSE <<>>)
  ELSE <<>>

\* tick(value): what the tick broadcasts
tick_msgs(r, open, value) ==
  IF r = "host" /\ open
  THEN <<CountdownMsg(value)>>
         \o (IF value <= 0 THEN <<PhaseMsg("playing")>> ELSE <<>>)
  ELSE <<>>


(* ===================== paddle game (PongGame) ========================= *)
\* resetBall(direction); rnd is the sign drawn by Math.random() > 0.5
resetBall(state, speed, direction, rnd) ==
  [state EXCEPT !.ball = [x |-> Px(CANVAS_WIDTH) \div 2,
                          y |-> Px(CANVAS_HEIGHT) \div 2,
                          vx |-> direction * speed,
                          vy |-> (speed \div 2) * rnd]]

\* resetState(): the world state it installs
resetState(speed) ==
  [ball |-> [x |-> Px(CANVAS_WIDTH) \div 2, y |-> Px(CANVAS_HEIGHT) \div 2,
             vx |-> speed, vy |-> speed \div 2],
   paddle1Y |-> Px(CANVAS_HEIGHT) \div 2 - Px(PADDLE_HEIGHT) \div 2,
   paddle2Y |-> Px(CANVAS_HEIGHT) \div 2 - Px(PADDLE_HEIGHT) \div 2,
   score1 |-> 0, score2 |-> 0]

\* updateGame, host branch: paddle 1 follows the keys held
movePaddle1(state, ks) ==
  LET up == IF "ArrowUp" \in ks
            THEN [state EXCEPT !.paddle1Y = Max(0, @ - Px(PADDLE_SPEED))]
            ELSE state
  IN IF "ArrowDown" \in ks
     THEN [up EXCEPT !.paddle1Y =
             Min(Px(CANVAS_HEIGHT) - Px(PADDLE_HEIGHT), @ + Px(PADDLE_SPEED))]
     ELSE up

\* updateGame, host branch, phase "playing": ball integration and wall bounce
moveBall(state) ==
  LET b == state.ball
      nx == b.x + b.vx
      ny == b.y + b.vy
      nvy == IF ny <= Px(BALL_SIZE) \div 2
                \/ ny >= Px(CANVAS_HEIGHT) - Px(BALL_SIZE) \div 2
             THEN -b.vy ELSE b.vy
  IN [state EXCEPT !.ball = [x |-> nx, y |-> ny, vx |-> b.vx, vy |-> nvy]]

\* updateGame: bounce off paddle 1, then off paddle 2
hitPaddles(state) ==
  LET b == state.ball
      s1 == IF /\ b.x - Px(BALL_SIZE) \div 2 <= Px(PADDLE_MARGIN) + Px(PADDLE_WIDTH)
               /\ b.x - Px(BALL_SIZE) \div 2 >= Px(PADDLE_MARGIN)
               /\ b.y >= state.paddle1Y
               /\ b.y <= state.paddle1Y + Px(PADDLE_HEIGHT)
               /\ b.vx < 0
            THEN [state EXCEPT
                    !.ball.vx = Abs(b.vx),
                    !.ball.x = Px(PADDLE_MARGIN) + Px(PADDLE_WIDTH)
                               + Px(BALL_SIZE) \div 2]
            ELSE state
      c == s1.ball
  IN IF /\ c.x + Px(BALL_SIZE) \div 2
             >= Px(CANVAS_WIDTH) - Px(PADDLE_MARGIN) - Px(PADDLE_WIDTH)
        /\ c.x + Px(BALL_SIZE) \div 2 <= Px(CANVAS_WIDTH) - Px(PADDLE_MARGIN)
        /\ c.y >= s1.paddle2Y
        /\ c.y <= s1.paddle2Y + Px(PADDLE_HEIGHT)
        /\ c.vx > 0
     THEN [s1 EXCEPT
             !.ball.vx = -Abs(c.vx),
             !.ball.x = Px(CANVAS_WIDTH) - Px(PADDLE_MARGIN) - Px(PADDLE_WIDTH)
                        - Px(BALL_SIZE) \div 2]
     ELSE s1

\* variant of scorePoints: the ball is served to the right after every point
scorePoints_servesRight(state, speed, rnd) ==
  LET s1 == IF state.ball.x < 0
            THEN resetBall([state EXCEPT !.score2 = @ + 1], speed, 1, rnd)
            ELSE state
  IN IF s1.ball.x > Px(CANVAS_WIDTH)
     THEN resetBall([s1 EXCEPT !.score1 = @ + 1], speed, 1, rnd)
     ELSE s1

\* variant of scorePoints: a point wipes the other side's score
scorePoints_wipesOther(state, speed, rnd) ==
  LET s1 == IF state.ball.x < 0
            THEN resetBall([state EXCEPT !.score2 = @ + 1, !.score1 = 0],
                           speed, 1, rnd)
            ELSE state
  IN IF s1.ball.x > Px(CANVAS_WIDTH)
     THEN resetBall([s1 EXCEPT !.score1 = @ + 1, !.score2 = 0],
                    speed, -1, rnd)
     ELSE s1

\* updateGame: a ball beyond an edge scores for the other side and is reset
scorePoints(state, speed, rnd) ==
  LET s1 == IF state.ball.x < 0
            THEN resetBall([state EXCEPT !.score2 = @ + 1], speed, 1, rnd)
            ELSE state
  IN IF s1.ball.x > Px(CANVAS_WIDTH)
     THEN resetBall([s1 EXCEPT !.score1 = @ + 1], speed, -1, rnd)
     ELSE s1

\* updateGame, host branch: the world state after one animation frame
hostFrame(state, ks, phase, speed, rnd) ==
  LET moved == movePaddle1(state, ks)
  IN IF phase = "playing"
     THEN scorePoints(hitPaddles(moveBall(moved)), speed, rnd)
     ELSE moved

\* updateGame, guest branch: the input messages of one animation frame
guestFrame(ks) ==
  (IF "ArrowUp" \in ks THEN <<InputMsg("up")>> ELSE <<>>)
    \o (IF "ArrowDown" \in ks THEN <<InputMsg("down")>> ELSE <<>>)

\* variant of applyInput: the new offset is not held inside the court
applyInput_unbounded(state, direction) ==
  IF direction = "up"
  THEN [state EXCEPT !.paddle2Y = @ - Px(PADDLE_SPEED)]
  ELSE IF direction = "down"
  THEN [state EXCEPT !.paddle2Y = @ + Px(PADDLE_SPEED)]
  ELSE state

\* onmessage, "input" branch: paddle 2 after a control input
applyInput(state, direction) ==
  IF direction = "up"
  THEN [state EXCEPT !.paddle2Y = Max(0, @ - Px(PADDLE_SPEED))]
  ELSE IF direction = "down"
  THEN [state EXCEPT !.paddle2Y =
          Min(Px(CANVAS_HEIGHT) - Px(PADDLE_HEIGHT), @ + Px(PADDLE_SPEED))]
  ELSE state

\* the [ballSpeed] effect, host branch: ball velocity rescaled to the speed
rescaleBall(state, speed) ==
  [state EXCEPT
     !.ball.vx = (IF Sign(@) = 0 THEN 1 ELSE Sign(@)) * speed,
     !.ball.vy = (speed \div 2) * Sign(IF @ = 0 THEN 1 ELSE @)]

\* variant of ScoresOf: the two scores are swapped
ScoresOf_swapped(state) == [score1 |-> state.score2, score2 |-> state.score1]

\* setScore1(state.score1); setScore2(state.score2) / updateScores(state)
ScoresOf(state) == [score1 |-> state.score1, score2 |-> state.score2]


(* ---------------------- invite links and answer codes ----------------- *)
\* the printable ASCII characters in code order, 32 to 126 (the grave accent
\* by its code point)
Ascii == <<
  " ", "!", "\"", "#", "$", "%", "&", "'", "(", ")", "*", "+", ",", "-", ".", "/",
  "0", "1", "2", "3", "4", "5", "6", "7", "8", "9", ":", ";", "<", "=", ">", "?",
  "@", "A", "B", "C", "D", "E", "F", "G", "H", "I", "J", "K", "L", "M", "N", "O",
  "P", "Q", "R", "S", "T", "U", "V", "W", "X", "Y", "Z", "[", "\\", "]", "^", "_",
  "U+0060", "a", "b", "c", "d", "e", "f", "g", "h", "i", "j", "k", "l", "m", "n", "o",
  "p", "q", "r", "s", "t", "u", "v", "w", "x", "y", "z", "{", "|", "}", "~" >>

charCode(c) == 31 + CHOOSE i \in 1..Len(Ascii) : Ascii[i] = c

\* what decoding to a string gives for a byte that is no character
Replacement == "U+FFFD"

fromCharCode(b) == IF b \in 32..126 THEN Ascii[b - 31] ELSE Replacement

\* the alphabet of btoa and atob, value 0 to 63
Base64 == <<
  "A", "B", "C", "D", "E", "F", "G", "H", "I", "J", "K", "L", "M", "N", "O", "P",
  "Q", "R", "S", "T", "U", "V", "W", "X", "Y", "Z", "a", "b", "c", "d", "e", "f",
  "g", "h", "i", "j", "k", "l", "m", "n", "o", "p", "q", "r", "s", "t", "u", "v",
  "w", "x", "y", "z", "0", "1", "2", "3", "4", "5", "6", "7", "8", "9", "+", "/" >>

sextet(c) == (CHOOSE i \in 1..Len(Base64) : Base64[i] = c) - 1

\* the descriptions of the connections of the model: pc = i stands for the
\* connection whose session text is Sdps[i]
Sdps == << <<"v", "=", "0", "\n">>,
           <<"v", "=">>,
           <<"v">>,
           <<"v", "?">>,
           <<"v", "~">>,
           <<"v", "?", "a", "=", "~">>,
           <<"a", "\"", "b">>,
           <<"v", "\n", "o", "\\", "?">> >>

Sessions == 1..Len(Sdps)
Offer == <<"o", "f", "f", "e", "r">>
Answer == <<"a", "n", "s", "w", "e", "r">>

\* { sdp: pc.localDescription?.sdp, type: pc.localDescription?.type }
localDescription(type, id) == [sdp |-> Sdps[id], type |-> type]

\* the connection a description belongs to (one past the last: none of them)
sessionOf(data) ==
  IF \E i \in Sessions : Sdps[i] = data.sdp
  THEN CHOOSE i \in Sessions : Sdps[i] = data.sdp
  ELSE Len(Sdps) + 1

\* what decodeFromURL's caller catches
DecodeError == [error |-> TRUE]

startsWith(text, i, key) ==
  /\ i + Len(key) - 1 <= Len(text)
  /\ SubSeq(text, i, i + Len(key) - 1) = key

\* JSON.stringify of a string, without the enclosing quotes
RECURSIVE quoted(_)
quoted(s) ==
  IF s = <<>> THEN <<>>
  ELSE (CASE s[1] = "\"" -> <<"\\", "\"">>
          [] s[1] = "\\" -> <<"\\", "\\">>
          [] s[1] = "\n" -> <<"\\", "n">>
          [] OTHER -> <<s[1]>>) \o quoted(Tail(s))

SdpKey == <<"{", "\"", "s", "d", "p", "\"", ":", "\"">>
TypeKey == <<"\"", ",", "\"", "t", "y", "p", "e", "\"", ":", "\"">>

\* JSON.stringify(data) for data = { sdp, type }
JSON_stringify(data) ==
  SdpKey \o quoted(data.sdp) \o TypeKey \o quoted(data.type) \o <<"\"", "}">>

\* the characters of a JSON string from text[i] up to its closing quote
RECURSIVE readString(_, _, _)
readString(text, i, acc) ==
  IF i > Len(text) THEN [ok |-> FALSE, chars |-> acc, next |-> i]
  ELSE IF text[i] = "\"" THEN [ok |-> TRUE, chars |-> acc, next |-> i]
  ELSE IF text[i] # "\\" THEN readString(text, i + 1, Append(acc, text[i]))
  ELSE IF i + 1 > Len(text) THEN [ok |-> FALSE, chars |-> acc, next |-> i]
  ELSE IF text[i + 1] = "n" THEN readString(text, i + 2, Append(acc, "\n"))
  ELSE IF text[i + 1] \in {"\"", "\\"}
       THEN readString(text, i + 2, Append(acc, text[i + 1]))
  ELSE [ok |-> FALSE, chars |-> acc, next |-> i]

\* JSON.parse(text) of a text that JSON.stringify makes of { sdp, type };
\* any other text is taken as a SyntaxError
JSON_parse(text) ==
  IF ~startsWith(text, 1, SdpKey) THEN DecodeError
  ELSE LET sdp == readString(text, Len(SdpKey) + 1, <<>>)
       IN IF ~sdp.ok \/ ~startsWith(text, sdp.next, TypeKey) THEN DecodeError
          ELSE LET type == readString(text, sdp.next + Len(TypeKey), <<>>)
               IN IF type.ok /\ type.next + 1 = Len(text)
                     /\ text[Len(text)] = "}"
                  THEN [sdp |-> sdp.chars, type |-> type.chars]
                  ELSE DecodeError

\* pako.gzip(jsonStr): the gzip magic number, the bytes of the text (stored,
\* not deflated) and a trailer with their count
pako_gzip(jsonStr) ==
  <<31, 139>> \o [i \in 1..Len(jsonStr) |-> charCode(jsonStr[i])]
              \o <<Len(jsonStr) % 256>>

\* pako.ungzip throws unless the bytes are what pako.gzip makes
isGzip(bytes) ==
  /\ Len(bytes) >= 3
  /\ bytes[1] = 31 /\ bytes[2] = 139
  /\ bytes[Len(bytes)] = (Len(bytes) - 3) % 256

\* pako.ungzip(bytes, { to: "string" })
pako_ungzip(bytes) ==
  [i \in 1..(Len(bytes) - 3) |-> fromCharCode(bytes[i + 2])]

\* btoa(String.fromCharCode(...compressed))
RECURSIVE btoa(_)
btoa(bytes) ==
  IF bytes = <<>> THEN <<>>
  ELSE LET b1 == bytes[1]
           b2 == IF Len(bytes) >= 2 THEN bytes[2] ELSE 0
           b3 == IF Len(bytes) >= 3 THEN bytes[3] ELSE 0
           c1 == Base64[b1 \div 4 + 1]
           c2 == Base64[(b1 % 4) * 16 + b2 \div 16 + 1]
           c3 == Base64[(b2 % 16) * 4 + b3 \div 64 + 1]
           c4 == Base64[(b3 % 64) + 1]
       IN IF Len(bytes) = 1 THEN <<c1, c2, "=", "=">>
          ELSE IF Len(bytes) = 2 THEN <<c1, c2, c3, "=">>
          ELSE <<c1, c2, c3, c4>> \o btoa(SubSeq(bytes, 4, Len(bytes)))

\* .replace(/\+/g, "-").replace(/\//g, "_")
toUrlAlphabet(base64) ==
  [i \in 1..Len(base64) |->
     IF base64[i] = "+" THEN "-" ELSE IF base64[i] = "/" THEN "_"
     ELSE base64[i]]

\* .replace(/=+$/, "")
RECURSIVE stripPadding(_)
stripPadding(s) ==
  IF s # <<>> /\ s[Len(s)] = "="
  THEN stripPadding(SubSeq(s, 1, Len(s) - 1))
  ELSE s

encodeForURL(data) ==
  stripPadding(toUrlAlphabet(btoa(pako_gzip(JSON_stringify(data)))))

\* variant of fromUrlAlphabet: "_" is left as it is
fromUrlAlphabet_keepsUnderscore(encoded) ==
  [i \in 1..Len(encoded) |-> IF encoded[i] = "-" THEN "+" ELSE encoded[i]]

\* encoded.replace(/-/g, "+").replace(/_/g, "/")
fromUrlAlphabet(encoded) ==
  [i \in 1..Len(encoded) |->
     IF encoded[i] = "-" THEN "+" ELSE IF encoded[i] = "_" THEN "/"
     ELSE encoded[i]]

\* while (base64.length % 4) base64 += "="
RECURSIVE padded(_)
padded(base64) ==
  IF Len(base64) % 4 # 0 THEN padded(Append(base64, "=")) ELSE base64

\* atob first drops one or two "=" from the end of a text whose length is a
\* multiple of four
unpadded(base64) ==
  LET n == Len(base64)
  IN IF n = 0 \/ n % 4 # 0 \/ base64[n] # "=" THEN base64
     ELSE IF base64[n - 1] = "=" THEN SubSeq(base64, 1, n - 2)
     ELSE SubSeq(base64, 1, n - 1)

\* atob throws on a character outside its alphabet and on a length of 4k + 1
atobAccepts(base64) ==
  LET data == unpadded(base64)
  IN /\ Len(data) % 4 # 1
     /\ \A i \in 1..Len(data) : \E j \in 1..Len(Base64) : Base64[j] = data[i]

RECURSIVE atobGroups(_)
atobGroups(data) ==
  IF Len(data) < 2 THEN <<>>
  ELSE LET s1 == sextet(data[1])
           s2 == sextet(data[2])
           s3 == IF Len(data) >= 3 THEN sextet(data[3]) ELSE 0
           s4 == IF Len(data) >= 4 THEN sextet(data[4]) ELSE 0
           b1 == s1 * 4 + s2 \div 16
           b2 == (s2 % 16) * 16 + s3 \div 4
           b3 == (s3 % 4) * 64 + s4
       IN IF Len(data) = 2 THEN <<b1>>
          ELSE IF Len(data) = 3 THEN <<b1, b2>>
          ELSE <<b1, b2, b3>> \o atobGroups(SubSeq(data, 5, Len(data)))

\* atob(base64), as char codes
atob(base64) == atobGroups(unpadded(base64))

decodeFromURL(encoded) ==
  LET base64 == padded(fromUrlAlphabet(encoded))
  IN IF ~atobAccepts(base64) THEN DecodeError
     ELSE LET bytes == atob(base64)
          IN IF ~isGzip(bytes) THEN DecodeError
             ELSE JSON_parse(pako_ungzip(bytes))

\* the query key of the game's invite link
QueryKey == <<"?", IF game = "pong" THEN "d" ELSE "s", "=">>

\* origin + pathname + "?d=" + encoded
linkOf(encoded) == <<"/">> \o QueryKey \o encoded

\* what follows the first occurrence of key in text (<<>> without one)
RECURSIVE afterKey(_, _)
afterKey(text, key) ==
  IF Len(text) < Len(key) THEN <<>>
  ELSE IF startsWith(text, 1, key)
       THEN SubSeq(text, Len(key) + 1, Len(text))
       ELSE afterKey(Tail(text), key)

includes(text, key) == \E i \in 1..Len(text) : startsWith(text, i, key)

\* String.prototype.trim, for spaces
RECURSIVE trim(_)
trim(s) ==
  IF s # <<>> /\ s[1] = " " THEN trim(Tail(s))
  ELSE IF s # <<>> /\ s[Len(s)] = " " THEN trim(SubSeq(s, 1, Len(s) - 1))
  ELSE s

(* ------------------------- signalling (both games) -------------------- *)
setStatus(p, text) == status' = [status EXCEPT ![p] = text]

\* history bookkeeping done by every step: remember that a peer's
\* gamePhaseRef.current has been "playing"
notePlaying ==
  reachedPlaying' =
    [p \in Peers |-> reachedPlaying[p] \/ gamePhaseRef'[p] = "playing"]

\* the channel of p can be announced open: for the host once the answer has
\* been applied and the guest's connection is the one that answered, for the
\* guest (ondatachannel, then onopen) once the host's end is open
canOpen(p) ==
  IF p = "H"
  THEN /\ chan[p] = "connecting" /\ answered[p]
       /\ pc[p] # 0 /\ pc[Other(p)] = pc[p]
  ELSE /\ chan[p] = "none" /\ net /\ chan[Other(p)] = "open"
       /\ pc[p] # 0 /\ pc[Other(p)] = pc[p]

\* variant of waitForICE_resolves: no timeout, the promise resolves only once
\* the transport is established
waitForICE_gatheringOnly(p) == pending[p] # 0 /\ net

\* waitForICE: the promise of the pending call resolves, on the null
\* candidate, on a gathering state that is already "complete", or on the
\* timeout, whichever comes first
waitForICE_resolves(p) == pending[p] # 0

\* after "await waitForICE(pc)" of createGame: the invite link is published
createGame_resume(p) ==
  /\ p = "H" /\ waitForICE_resolves(p)
  /\ inviteLink' = [inviteLink EXCEPT ![p] =
       linkOf(encodeForURL(localDescription(Offer, pending[p])))]
  /\ pending' = [pending EXCEPT ![p] = 0]
  /\ UNCHANGED <<game, role, connected, phaseVars, pongVars, snakeVars,
                 worldVars, pc, answerCode, answerInput, answered, mounted, netVars, steps, inputs>>
  /\ setStatus(p, IF game = "pong"
                    THEN "Invite link vygenerovany! Posli ho kamaratovi."
                    ELSE "Link vygenerovany, posli hostovi.")
  /\ UNCHANGED solo
  /\ notePlaying

\* after "await waitForICE(pc)" of handleIncomingOffer: the answer code
handleIncomingOffer_resume(p) ==
  /\ p = "G" /\ waitForICE_resolves(p)
  /\ answerCode' = [answerCode EXCEPT ![p] =
       encodeForURL(localDescription(Answer, pending[p]))]
  /\ pending' = [pending EXCEPT ![p] = 0]
  /\ UNCHANGED <<game, role, connected, phaseVars, pongVars, snakeVars,
                 worldVars, pc, inviteLink, answerInput, answered, mounted, netVars, steps, inputs>>
  /\ setStatus(p, IF game = "pong"
                    THEN "Skopiruj kod odpovede a posli ho hostitelovi."
                    ELSE "Skopiruj kod a posli hostitelovi.")
  /\ UNCHANGED solo
  /\ notePlaying

\* the host types or pastes text into the answer field
setAnswerInput(p, text) ==
  /\ mounted[p] /\ role[p] = "host" /\ ~connected[p] /\ ~isImmersive(p)
  /\ inviteLink[p] # <<>>
  /\ answerInput[p] # text
  /\ answerInput' = [answerInput EXCEPT ![p] = text]
  /\ UNCHANGED <<game, role, connected, phaseVars, pongVars, snakeVars,
                 worldVars, pc, pending, inviteLink, answerCode, answered,
                 mounted, netVars, steps, inputs>>
  /\ UNCHANGED status
  /\ UNCHANGED solo
  /\ notePlaying

\* processAnswer, the token it hands to decodeFromURL
answerToken(text) ==
  IF includes(trim(text), QueryKey) THEN afterKey(trim(text), QueryKey)
  ELSE trim(text)

\* setRemoteDescription resolves for the answer to this connection's offer,
\* once
answerApplies(p, answerData) ==
  /\ answerData # DecodeError
  /\ answerData.type = Answer
  /\ sessionOf(answerData) = pc[p]
  /\ ~answered[p]

\* variant of processAnswer: the field is emptied when the answer is refused
processAnswer_clearsInput(p) ==
  /\ mounted[p] /\ role[p] = "host" /\ ~connected[p] /\ ~isImmersive(p)
  /\ inviteLink[p] # <<>>
  /\ pc[p] # 0 /\ trim(answerInput[p]) # <<>>
  /\ LET answerData == decodeFromURL(answerToken(answerInput[p]))
         applies == answerApplies(p, answerData)
     IN /\ answered' = [answered EXCEPT ![p] = @ \/ applies]
        /\ answerInput' = [answerInput EXCEPT ![p] =
             IF applies THEN @ ELSE <<>>]
        /\ setStatus(p, IF ~applies THEN "Chyba pri spracovani odpovede"
                        ELSE IF game = "pong"
                        THEN "Odpoved prijata, pripajam sa..."
                        ELSE "Odpoved prijata, cakam na spojenie...")
  /\ UNCHANGED <<game, role, connected, phaseVars, pongVars, snakeVars,
                 worldVars, pc, pending, inviteLink, answerCode,
                 mounted, netVars, steps, inputs>>
  /\ UNCHANGED solo
  /\ notePlaying

\* processAnswer: a token that does not decode, or an answer that
\* setRemoteDescription rejects, changes the status only
processAnswer(p) ==
  /\ mounted[p] /\ role[p] = "host" /\ ~connected[p] /\ ~isImmersive(p)
  /\ inviteLink[p] # <<>>
  /\ pc[p] # 0 /\ trim(answerInput[p]) # <<>>
  /\ LET answerData == decodeFromURL(answerToken(answerInput[p]))
         applies == answerApplies(p, answerData)
     IN /\ answered' = [answered EXCEPT ![p] = @ \/ applies]
        /\ setStatus(p, IF ~applies THEN "Chyba pri spracovani odpovede"
                        ELSE IF game = "pong"
                        THEN "Odpoved prijata, pripajam sa..."
                        ELSE "Odpoved prijata, cakam na spojenie...")
  /\ UNCHANGED <<game, role, connected, phaseVars, pongVars, snakeVars,
                 worldVars, pc, pending, inviteLink, answerCode, answerInput,
                 mounted, netVars, steps, inputs>>
  /\ UNCHANGED solo
  /\ notePlaying

(* ----------------------- paddle game: handlers ------------------------ *)
Pong_createGame(p) ==
  /\ game = "pong" /\ p = "H"
  /\ mounted[p] /\ role[p] = "none" /\ ~isImmersive(p)
  /\ pending[p] = 0
  /\ role' = [role EXCEPT ![p] = "host"]
  /\ gamePhase' = [gamePhase EXCEPT ![p] = "lobby"]
  /\ gamePhaseRef' = [gamePhaseRef EXCEPT ![p] = "lobby"]
  /\ pc' = [pc EXCEPT ![p] = 1]
  /\ chan' = [chan EXCEPT ![p] = "connecting"]
  /\ pending' = [pending EXCEPT ![p] = 1]
  /\ answered' = [answered EXCEPT ![p] = FALSE]
  /\ UNCHANGED <<game, connected, countdown, countdownTimer, pongVars,
                 snakeVars, worldVars, inviteLink, answerCode, answerInput,
                 mounted, queue, net, closeEvt, steps, inputs>>
  /\ setStatus(p, "Cakam na ICE kandidatov...")
  /\ UNCHANGED solo
  /\ notePlaying

\* variant of Pong_handleIncomingOffer: the page that accepts an offer takes
\* the host role
Pong_handleIncomingOffer_asHost(p, offerData) ==
  /\ role' = [role EXCEPT ![p] = "host"]
  /\ gamePhase' = [gamePhase EXCEPT ![p] = "lobby"]
  /\ gamePhaseRef' = [gamePhaseRef EXCEPT ![p] = "lobby"]
  /\ pc' = [pc EXCEPT ![p] = sessionOf(offerData)]
  /\ pending' = [pending EXCEPT ![p] = sessionOf(offerData)]
  /\ setStatus(p, "Cakam na ICE kandidatov...")

Pong_handleIncomingOffer(p, offerData) ==
  /\ role' = [role EXCEPT ![p] = "guest"]
  /\ gamePhase' = [gamePhase EXCEPT ![p] = "lobby"]
  /\ gamePhaseRef' = [gamePhaseRef EXCEPT ![p] = "lobby"]
  /\ pc' = [pc EXCEPT ![p] = sessionOf(offerData)]
  /\ pending' = [pending EXCEPT ![p] = sessionOf(offerData)]
  /\ setStatus(p, "Cakam na ICE kandidatov...")

\* the effect that reads the offer from the page's address: data is
\* params.get("d")
Pong_urlOffer(p, data) ==
  /\ game = "pong" /\ p = "G"
  /\ mounted[p] /\ role[p] = "none" /\ pending[p] = 0
  /\ data # <<>>
  /\ LET offerData == decodeFromURL(data)
     IN IF offerData = DecodeError
        THEN /\ setStatus(p, "Neplatny invite link")
             /\ UNCHANGED <<role, gamePhase, gamePhaseRef, pc, pending>>
        ELSE Pong_handleIncomingOffer(p, offerData)
  /\ UNCHANGED <<game, connected, countdown, countdownTimer, pongVars,
                 snakeVars, worldVars, inviteLink, answerCode, answerInput,
                 answered, mounted, netVars, steps, inputs>>
  /\ UNCHANGED solo
  /\ notePlaying

\* variant of Pong_onopen: the host sends its setting after the countdown has
\* started
Pong_onopen_settingsLast(p) ==
  /\ game = "pong" /\ canOpen(p)
  /\ LET host == role[p] = "host"
         msgs == IF host
                 THEN (IF face[p].host THEN <<FaceMsg("hostFace")>> ELSE <<>>)
                        \o tick_msgs(role[p], TRUE, COUNTDOWN_START)
                        \o <<SettingsMsg(ballSpeed[p])>>
                 ELSE IF face[p].guest THEN <<FaceMsg("guestFace")>> ELSE <<>>
     IN /\ connected' = [connected EXCEPT ![p] = TRUE]
        /\ gameLoop' = [gameLoop EXCEPT ![p] = TRUE]
        /\ chan' = [chan EXCEPT ![p] = "open"]
        /\ net' = TRUE
        /\ queue' = enqueue(p, msgs)
        /\ gamePhase' = [gamePhase EXCEPT ![p] =
             IF host THEN tick_phase("countdown", COUNTDOWN_START) ELSE "lobby"]
        /\ gamePhaseRef' = [gamePhaseRef EXCEPT ![p] =
             IF host THEN tick_phase("countdown", COUNTDOWN_START) ELSE "lobby"]
        /\ countdown' = [countdown EXCEPT ![p] =
             IF host THEN COUNTDOWN_START ELSE @]
        /\ countdownTimer' = [countdownTimer EXCEPT ![p] =
             IF host THEN tick_timer(COUNTDOWN_START) ELSE @]
  /\ UNCHANGED <<game, role, keys, ballSpeed, face, snakeVars, worldVars,
                 sigVars, closeEvt, steps, inputs>>
  /\ setStatus(p, "Pripojene!")
  /\ UNCHANGED solo
  /\ notePlaying

\* channel.onopen
Pong_onopen(p) ==
  /\ game = "pong" /\ canOpen(p)
  /\ LET host == role[p] = "host"
         msgs == IF host
                 THEN (IF face[p].host THEN <<FaceMsg("hostFace")>> ELSE <<>>)
                        \o <<SettingsMsg(ballSpeed[p])>>
                        \o tick_msgs(role[p], TRUE, COUNTDOWN_START)
                 ELSE IF face[p].guest THEN <<FaceMsg("guestFace")>> ELSE <<>>
     IN /\ connected' = [connected EXCEPT ![p] = TRUE]
        /\ gameLoop' = [gameLoop EXCEPT ![p] = TRUE]
        /\ chan' = [chan EXCEPT ![p] = "open"]
        /\ net' = TRUE
        /\ queue' = enqueue(p, msgs)
        /\ gamePhase' = [gamePhase EXCEPT ![p] =
             IF host THEN tick_phase("countdown", COUNTDOWN_START) ELSE "lobby"]
        /\ gamePhaseRef' = [gamePhaseRef EXCEPT ![p] =
             IF host THEN tick_phase("countdown", COUNTDOWN_START) ELSE "lobby"]
        /\ countdown' = [countdown EXCEPT ![p] =
             IF host THEN COUNTDOWN_START ELSE @]
        /\ countdownTimer' = [countdownTimer EXCEPT ![p] =
             IF host THEN tick_timer(COUNTDOWN_START) ELSE @]
  /\ UNCHANGED <<game, role, keys, ballSpeed, face, snakeVars, worldVars,
                 sigVars, closeEvt, steps, inputs>>
  /\ setStatus(p, "Pripojene!")
  /\ UNCHANGED solo
  /\ notePlaying

\* the timeout scheduled by tick fires: tick(value)
Pong_tick(p) ==
  /\ game = "pong" /\ countdownTimer[p] # NoTimer
  /\ LET value == countdownTimer[p]
     IN /\ countdown' = [countdown EXCEPT ![p] = value]
        /\ gamePhase' = [gamePhase EXCEPT ![p] = tick_phase(@, value)]
        /\ gamePhaseRef' = [gamePhaseRef EXCEPT ![p] = tick_phase(@, value)]
        /\ countdownTimer' = [countdownTimer EXCEPT ![p] = tick_timer(value)]
        /\ queue' = send(p, tick_msgs(role[p], channelOpen(p), value))
  /\ UNCHANGED <<game, role, connected, pongVars, snakeVars, worldVars,
                 sigVars, chan, net, closeEvt, steps, inputs>>
  /\ UNCHANGED status
  /\ UNCHANGED solo
  /\ notePlaying

\* channel.onclose
Pong_onclose(p) ==
  /\ game = "pong" /\ closeEvt[p]
  /\ closeEvt' = [closeEvt EXCEPT ![p] = FALSE]
  /\ chan' = [chan EXCEPT ![p] = "closed"]
  /\ queue' = [queue EXCEPT ![p] = <<>>]
  /\ connected' = [connected EXCEPT ![p] = FALSE]
  /\ gameLoop' = [gameLoop EXCEPT ![p] = FALSE]
  /\ gamePhase' = [gamePhase EXCEPT ![p] = "idle"]
  /\ gamePhaseRef' = [gamePhaseRef EXCEPT ![p] = "idle"]
  /\ UNCHANGED <<game, role, countdown, countdownTimer, keys, ballSpeed, face,
                 snakeVars, worldVars, sigVars, net, steps, inputs>>
  /\ setStatus(p, "Spojenie ukoncene")
  /\ UNCHANGED solo
  /\ notePlaying


\* channel.onmessage
Pong_onmessage(p) ==
  /\ game = "pong" /\ channelOpen(p) /\ queue[p] # <<>>
  /\ CanSend(p, 1)
  /\ LET m == Head(queue[p])
         isState == m.type = "gameState" /\ role[p] = "guest"
         isInput == ~isState /\ m.type = "input" /\ role[p] = "host"
         isHostFace == ~isState /\ ~isInput /\ m.type = "hostFace"
         isGuestFace == ~isState /\ ~isInput /\ m.type = "guestFace"
         isPhase == ~isState /\ ~isInput /\ m.type = "phase"
         isSettings == ~isState /\ ~isInput /\ m.type = "settings"
         \* setBallSpeed(v) re-runs the [ballSpeed] effect when v is new
         speedChanged == isSettings /\ m.ballSpeed # ballSpeed[p]
         rest == [queue EXCEPT ![p] = Tail(@)]
     IN /\ gameState' = [gameState EXCEPT ![p] =
             IF isState THEN m.state
             ELSE IF isInput THEN applyInput(@, m.direction)
             ELSE IF speedChanged /\ role[p] = "host"
             THEN rescaleBall(@, m.ballSpeed)
             ELSE @]
        /\ scores' = [scores EXCEPT ![p] =
             IF isState THEN ScoresOf(m.state) ELSE @]
        /\ face' = [face EXCEPT ![p] =
             IF isHostFace THEN [@ EXCEPT !.host = TRUE]
             ELSE IF isGuestFace THEN [@ EXCEPT !.guest = TRUE]
             ELSE @]
        /\ gamePhase' = [gamePhase EXCEPT ![p] =
             IF isPhase /\ m.phase \in {"countdown", "playing"}
             THEN m.phase ELSE @]
        /\ gamePhaseRef' = [gamePhaseRef EXCEPT ![p] =
             IF isPhase /\ m.phase \in {"countdown", "playing"}
             THEN m.phase ELSE @]
        /\ countdown' = [countdown EXCEPT ![p] =
             IF isPhase /\ m.phase = "countdown" THEN m.countdown ELSE @]
        /\ ballSpeed' = [ballSpeed EXCEPT ![p] =
             IF isSettings THEN m.ballSpeed ELSE @]
        /\ queue' = IF speedChanged /\ role[p] = "host" /\ net
                    THEN [rest EXCEPT ![Other(p)] =
                            @ \o <<SettingsMsg(m.ballSpeed)>>]
                    ELSE rest
  /\ UNCHANGED <<game, role, connected, countdownTimer, keys, gameLoop,
                 snakeVars, sigVars, chan, net, closeEvt, steps, inputs>>
  /\ UNCHANGED status
  /\ UNCHANGED solo
  /\ notePlaying

\* variant of Pong_updateGame: the snapshot is taken before the frame
Pong_updateGame_sendsBefore(p) ==
  /\ game = "pong" /\ gameLoop[p]
  /\ steps < MaxSteps /\ CanSend(p, 2)
  /\ steps' = steps + 1
  /\ \E rnd \in {1, -1} :
       LET next == hostFrame(gameState[p], keys[p], gamePhaseRef[p],
                             ballSpeed[p], rnd)
       IN IF role[p] = "host"
          THEN /\ gameState' = [gameState EXCEPT ![p] = next]
               /\ scores' = [scores EXCEPT ![p] =
                    IF gamePhaseRef[p] = "playing" THEN ScoresOf(next) ELSE @]
               /\ queue' = send(p, <<StateMsg(gameState[p])>>)
          ELSE /\ UNCHANGED worldVars
               /\ queue' = IF role[p] = "guest"
                           THEN send(p, guestFrame(keys[p]))
                           ELSE queue
  /\ UNCHANGED <<game, role, connected, phaseVars, pongVars, snakeVars,
                 sigVars, chan, net, closeEvt, inputs>>
  /\ UNCHANGED status
  /\ UNCHANGED solo
  /\ notePlaying

\* updateGame: one animation frame; rnd is the draw of Math.random in resetBall
Pong_updateGame(p) ==
  /\ game = "pong" /\ gameLoop[p]
  /\ steps < MaxSteps /\ CanSend(p, 2)
  /\ steps' = steps + 1
  /\ \E rnd \in {1, -1} :
       LET next == hostFrame(gameState[p], keys[p], gamePhaseRef[p],
                             ballSpeed[p], rnd)
       IN IF role[p] = "host"
          THEN /\ gameState' = [gameState EXCEPT ![p] = next]
               /\ scores' = [scores EXCEPT ![p] =
                    IF gamePhaseRef[p] = "playing" THEN ScoresOf(next) ELSE @]
               /\ queue' = send(p, <<StateMsg(next)>>)
          ELSE /\ UNCHANGED worldVars
               /\ queue' = IF role[p] = "guest"
                           THEN send(p, guestFrame(keys[p]))
                           ELSE queue
  /\ UNCHANGED <<game, role, connected, phaseVars, pongVars, snakeVars,
                 sigVars, chan, net, closeEvt, inputs>>
  /\ UNCHANGED status
  /\ UNCHANGED solo
  /\ notePlaying

\* endSession (the exit button or the Escape key)
Pong_endSession(p) ==
  /\ game = "pong"
  /\ mounted[p]
  /\ mounted' = [mounted EXCEPT ![p] = FALSE]
  /\ connected' = [connected EXCEPT ![p] = FALSE]
  /\ gameLoop' = [gameLoop EXCEPT ![p] = FALSE]
  /\ inviteLink' = [inviteLink EXCEPT ![p] = <<>>]
  /\ answerCode' = [answerCode EXCEPT ![p] = <<>>]
  /\ answerInput' = [answerInput EXCEPT ![p] = <<>>]
  /\ role' = [role EXCEPT ![p] = "none"]
  /\ gamePhase' = [gamePhase EXCEPT ![p] = "idle"]
  /\ gamePhaseRef' = [gamePhaseRef EXCEPT ![p] = "idle"]
  /\ gameState' = [gameState EXCEPT ![p] = resetState(ballSpeed[p])]
  /\ scores' = [scores EXCEPT ![p] = [score1 |-> 0, score2 |-> 0]]
  /\ countdown' = [countdown EXCEPT ![p] = COUNTDOWN_START]
  /\ chan' = [chan EXCEPT ![p] = "none"]
  /\ pc' = [pc EXCEPT ![p] = 0]
  /\ answered' = [answered EXCEPT ![p] = FALSE]
  /\ queue' = [queue EXCEPT ![p] = <<>>]
  /\ net' = FALSE
  /\ closeEvt' = [q \in Peers |->
       IF q = p THEN FALSE ELSE closeEvt[q] \/ (net /\ chan[q] = "open")]
  /\ UNCHANGED <<game, countdownTimer, keys, ballSpeed, face, snakeVars,
                 pending, steps, inputs>>
  /\ setStatus(p, "Pripravene na vytvorenie hry")
  /\ UNCHANGED solo
  /\ notePlaying

\* handleKeyDown for one of the paddle keys
Pong_handleKeyDown(p, k) ==
  /\ game = "pong" /\ k \notin keys[p]
  /\ mounted[p] /\ gameLoop[p] /\ inputs < MaxInputs
  /\ inputs' = inputs + 1
  /\ keys' = [keys EXCEPT ![p] = @ \cup {k}]
  /\ UNCHANGED <<game, role, connected, phaseVars, ballSpeed, face, gameLoop,
                 snakeVars, worldVars, sigVars, netVars, steps>>
  /\ UNCHANGED status
  /\ UNCHANGED solo
  /\ notePlaying

\* handleKeyUp
Pong_handleKeyUp(p, k) ==
  /\ game = "pong" /\ k \in keys[p]
  /\ mounted[p] /\ gameLoop[p]
  /\ UNCHANGED inputs
  /\ keys' = [keys EXCEPT ![p] = @ \ {k}]
  /\ UNCHANGED <<game, role, connected, phaseVars, ballSpeed, face, gameLoop,
                 snakeVars, worldVars, sigVars, netVars, steps>>
  /\ UNCHANGED status
  /\ UNCHANGED solo
  /\ notePlaying

\* the speed slider: setBallSpeed(v), then the [ballSpeed] effect
Pong_setBallSpeed(p, v) ==
  /\ game = "pong" /\ mounted[p] /\ ~isImmersive(p) /\ v # ballSpeed[p]
  /\ CanSend(p, 1) /\ inputs < MaxInputs
  /\ inputs' = inputs + 1
  /\ ballSpeed' = [ballSpeed EXCEPT ![p] = v]
  /\ gameState' = [gameState EXCEPT ![p] =
       IF role[p] = "host" THEN rescaleBall(@, v) ELSE @]
  /\ queue' = IF role[p] = "host" THEN send(p, <<SettingsMsg(v)>>) ELSE queue
  /\ UNCHANGED <<game, role, connected, phaseVars, keys, face, gameLoop,
                 snakeVars, scores, sigVars, chan, net, closeEvt, steps>>
  /\ UNCHANGED status
  /\ UNCHANGED solo
  /\ notePlaying

\* capturePhoto: the photo becomes the peer's own paddle skin
Pong_capturePhoto(p) ==
  /\ game = "pong" /\ mounted[p] /\ ~isImmersive(p)
  /\ CanSend(p, 1) /\ inputs < MaxInputs
  /\ inputs' = inputs + 1
  /\ LET mine == IF role[p] \in {"host", "none"} THEN "host" ELSE "guest"
     IN /\ ~face[p][mine]
        /\ face' = [face EXCEPT ![p][mine] = TRUE]
        /\ queue' = send(p, <<FaceMsg(IF mine = "host" THEN "hostFace"
                                       ELSE "guestFace")>>)
  /\ UNCHANGED <<game, role, connected, phaseVars, keys, ballSpeed, gameLoop,
                 snakeVars, worldVars, sigVars, chan, net, closeEvt, steps>>
  /\ UNCHANGED status
  /\ UNCHANGED solo
  /\ notePlaying

(* ====================== chase game (MultiSnake) ======================= *)
opposite(d) ==
  CASE d = "up" -> "down"
    [] d = "down" -> "up"
    [] d = "left" -> "right"
    [] d = "right" -> "left"

delta(d) ==
  CASE d = "up" -> Cell(0, -1)
    [] d = "down" -> Cell(0, 1)
    [] d = "left" -> Cell(-1, 0)
    [] d = "right" -> Cell(1, 0)

Cells(snake) == {snake[i] : i \in 1..Len(snake)}

\* cells Math.random is let to propose for the food in this model
FoodCells == {Cell(5, 8), Cell(COLS - 6, 8), Cell(12, 6)}
AllCells == {Cell(cx, cy) : cx \in 0..(COLS - 1), cy \in 0..(ROWS - 1)}

\* variant of placeFood: the first draw is returned without the redraw loop
placeFood_firstDraw(snakeA, snakeB) == FoodCells

\* placeFood(snakeA, snakeB): the cells the redraw loop can end on
placeFood(snakeA, snakeB) ==
  LET occupied == Cells(snakeA) \cup Cells(snakeB)
  IN IF FoodCells \ occupied # {}
     THEN FoodCells \ occupied
     ELSE AllCells \ occupied

\* resetGameState(): the world state it installs, given the food drawn
resetGameState(food) ==
  [snake1 |-> InitialSnake1, snake2 |-> InitialSnake2,
   dir1 |-> "right", dir2 |-> "left", food |-> food,
   score1 |-> 0, score2 |-> 0, phase |-> "lobby"]

\* stepGame, advance(snake, dir): the proposed head
advance(snake, dir) ==
  Cell(snake[1].x + delta(dir).x, snake[1].y + delta(dir).y)

hitsWall(c) == c.x < 0 \/ c.x >= COLS \/ c.y < 0 \/ c.y >= ROWS

\* variant of anyCrash: the walls are not tested
anyCrash_noWalls(state, next1, next2) ==
  \/ next1 \in Cells(state.snake1)
  \/ next2 \in Cells(state.snake2)
  \/ next1 = next2
  \/ next1 \in Cells(state.snake2)
  \/ next2 \in Cells(state.snake1)

\* stepGame: anyCrash for the proposed heads next1 and next2
anyCrash(state, next1, next2) ==
  \/ hitsWall(next1)
  \/ hitsWall(next2)
  \/ next1 \in Cells(state.snake1)
  \/ next2 \in Cells(state.snake2)
  \/ next1 = next2
  \/ next1 \in Cells(state.snake2)
  \/ next2 \in Cells(state.snake1)

\* variant of grow: the last cell is kept in every step
grow_always(snake, next, ate) == <<next>> \o snake

\* stepGame: [next, ...snake], without its last cell unless the snake ate
grow(snake, next, ate) ==
  IF ate THEN <<next>> \o snake
  ELSE <<next>> \o SubSeq(snake, 1, Len(snake) - 1)

\* stepGame while phase = "playing": the world state after the step, given
\* the buffered directions and the food drawn if a snake eats
stepState(state, d1, d2, food) ==
  LET turned == [state EXCEPT !.dir1 = d1, !.dir2 = d2]
      next1 == advance(state.snake1, d1)
      next2 == advance(state.snake2, d2)
      ate1 == next1 = state.food
      ate2 == next2 = state.food
  IN IF anyCrash(state, next1, next2)
     THEN [turned EXCEPT !.phase = "over"]
     ELSE [turned EXCEPT
             !.snake1 = grow(state.snake1, next1, ate1),
             !.snake2 = grow(state.snake2, next2, ate2),
             !.food = IF ate1 \/ ate2 THEN food ELSE @,
             !.score1 = IF ate1 THEN @ + 1 ELSE @,
             !.score2 = IF ate2 THEN @ + 1 ELSE @]

\* the food cells stepGame can draw in this step
stepFoods(state, d1, d2) ==
  LET next1 == advance(state.snake1, d1)
      next2 == advance(state.snake2, d2)
      ate1 == next1 = state.food
      ate2 == next2 = state.food
  IN IF ~anyCrash(state, next1, next2) /\ (ate1 \/ ate2)
     THEN placeFood(grow(state.snake1, next1, ate1),
                    grow(state.snake2, next2, ate2))
     ELSE {state.food}

\* variant of acceptDir: the turn is dropped
acceptDir_dropsTurn(cur, next) == cur

\* onmessage / handleKeyDown: a turn is buffered unless it reverses the
\* buffered direction
acceptDir(cur, next) == IF next # opposite(cur) THEN next ELSE cur

(* ------------------------ chase game: handlers ------------------------ *)
Snake_createGame(p) ==
  /\ game = "snake" /\ p = "H"
  /\ mounted[p] /\ role[p] = "none" /\ ~isImmersive(p)
  /\ pending[p] = 0
  /\ role' = [role EXCEPT ![p] = "host"]
  /\ \E food \in placeFood(InitialSnake1, InitialSnake2) :
       gameState' = [gameState EXCEPT ![p] = resetGameState(food)]
  /\ dir1Ref' = [dir1Ref EXCEPT ![p] = "right"]
  /\ dir2Ref' = [dir2Ref EXCEPT ![p] = "left"]
  /\ scores' = [scores EXCEPT ![p] = [score1 |-> 0, score2 |-> 0]]
  /\ gamePhase' = [gamePhase EXCEPT ![p] = "lobby"]
  /\ gamePhaseRef' = [gamePhaseRef EXCEPT ![p] = "lobby"]
  /\ pc' = [pc EXCEPT ![p] = 1]
  /\ chan' = [chan EXCEPT ![p] = "connecting"]
  /\ pending' = [pending EXCEPT ![p] = 1]
  /\ answered' = [answered EXCEPT ![p] = FALSE]
  /\ UNCHANGED <<game, connected, countdown, countdownTimer, pongVars,
                 interval, inviteLink, answerCode, answerInput, mounted,
                 queue, net, closeEvt, steps, inputs>>
  /\ setStatus(p, "Cakam na ICE kandidatov...")
  /\ UNCHANGED solo
  /\ notePlaying

Snake_handleIncomingOffer(p, offerData) ==
  /\ role' = [role EXCEPT ![p] = "guest"]
  /\ pc' = [pc EXCEPT ![p] = sessionOf(offerData)]
  /\ pending' = [pending EXCEPT ![p] = sessionOf(offerData)]
  /\ setStatus(p, "Cakam na ICE kandidatov...")

\* the effect that reads the offer from the page's address: data is
\* params.get("s")
Snake_urlOffer(p, data) ==
  /\ game = "snake" /\ p = "G"
  /\ mounted[p] /\ role[p] = "none" /\ pending[p] = 0
  /\ data # <<>>
  /\ LET offerData == decodeFromURL(data)
     IN IF offerData = DecodeError
        THEN /\ setStatus(p, "Neplatny link")
             /\ UNCHANGED <<role, pc, pending>>
        ELSE Snake_handleIncomingOffer(p, offerData)
  /\ UNCHANGED <<game, connected, phaseVars, pongVars, snakeVars, worldVars,
                 inviteLink, answerCode, answerInput, answered, mounted, netVars,
                 steps, inputs>>
  /\ UNCHANGED solo
  /\ notePlaying

\* channel.onopen
Snake_onopen(p) ==
  /\ game = "snake" /\ canOpen(p)
  /\ LET host == role[p] = "host"
     IN /\ connected' = [connected EXCEPT ![p] = TRUE]
        /\ chan' = [chan EXCEPT ![p] = "open"]
        /\ net' = TRUE
        /\ IF host
           THEN /\ \E food \in placeFood(InitialSnake1, InitialSnake2) :
                     gameState' = [gameState EXCEPT ![p] = resetGameState(food)]
                /\ dir1Ref' = [dir1Ref EXCEPT ![p] = "right"]
                /\ dir2Ref' = [dir2Ref EXCEPT ![p] = "left"]
                /\ scores' = [scores EXCEPT ![p] = [score1 |-> 0, score2 |-> 0]]
           ELSE UNCHANGED <<gameState, dir1Ref, dir2Ref, scores>>
        /\ queue' = enqueue(p, tick_msgs(role[p], TRUE, COUNTDOWN_START))
        /\ gamePhase' = [gamePhase EXCEPT ![p] =
             IF host THEN tick_phase("countdown", COUNTDOWN_START) ELSE "lobby"]
        /\ gamePhaseRef' = [gamePhaseRef EXCEPT ![p] =
             IF host THEN tick_phase("countdown", COUNTDOWN_START) ELSE "lobby"]
        /\ countdown' = [countdown EXCEPT ![p] =
             IF host THEN COUNTDOWN_START ELSE @]
        /\ countdownTimer' = [countdownTimer EXCEPT ![p] =
             IF host THEN tick_timer(COUNTDOWN_START) ELSE @]
  /\ UNCHANGED <<game, role, pongVars, interval, sigVars, closeEvt, steps,
                 inputs>>
  /\ setStatus(p, "Pripojene")
  /\ UNCHANGED solo
  /\ notePlaying

\* the timeout scheduled by tick fires: tick(value)
Snake_tick(p) ==
  /\ game = "snake" /\ countdownTimer[p] # NoTimer
  /\ LET value == countdownTimer[p]
     IN /\ countdown' = [countdown EXCEPT ![p] = value]
        /\ gamePhase' = [gamePhase EXCEPT ![p] = tick_phase(@, value)]
        /\ gamePhaseRef' = [gamePhaseRef EXCEPT ![p] = tick_phase(@, value)]
        /\ countdownTimer' = [countdownTimer EXCEPT ![p] = tick_timer(value)]
        /\ interval' = [interval EXCEPT ![p] =
             IF value <= 0 /\ role[p] = "host" THEN TRUE ELSE @]
        /\ queue' = send(p, tick_msgs(role[p], channelOpen(p), value))
  /\ UNCHANGED <<game, role, connected, pongVars, dir1Ref, dir2Ref, worldVars,
                 sigVars, chan, net, closeEvt, steps, inputs>>
  /\ UNCHANGED status
  /\ UNCHANGED solo
  /\ notePlaying

\* channel.onclose
Snake_onclose(p) ==
  /\ game = "snake" /\ closeEvt[p]
  /\ closeEvt' = [closeEvt EXCEPT ![p] = FALSE]
  /\ chan' = [chan EXCEPT ![p] = "closed"]
  /\ queue' = [queue EXCEPT ![p] = <<>>]
  /\ connected' = [connected EXCEPT ![p] = FALSE]
  /\ interval' = [interval EXCEPT ![p] = FALSE]
  /\ UNCHANGED <<game, role, phaseVars, pongVars, dir1Ref, dir2Ref, worldVars,
                 sigVars, net, steps, inputs>>
  /\ setStatus(p, "Spojenie ukoncene")
  /\ UNCHANGED solo
  /\ notePlaying

\* variant of Snake_onmessage: a control input is applied whatever the role
Snake_onmessage_anyRole(p) ==
  /\ game = "snake" /\ channelOpen(p) /\ queue[p] # <<>>
  /\ LET m == Head(queue[p])
         isState == m.type = "gameState" /\ role[p] = "guest"
         isInput == ~isState /\ m.type = "input"
         isPhase == ~isState /\ ~isInput /\ m.type = "phase"
     IN /\ gameState' = [gameState EXCEPT ![p] = IF isState THEN m.state ELSE @]
        /\ scores' = [scores EXCEPT ![p] =
             IF isState THEN ScoresOf(m.state) ELSE @]
        /\ dir2Ref' = [dir2Ref EXCEPT ![p] =
             IF isInput THEN acceptDir(@, m.direction) ELSE @]
        /\ gamePhase' = [gamePhase EXCEPT ![p] =
             IF isPhase /\ m.phase \in {"countdown", "playing"}
             THEN m.phase ELSE @]
        /\ gamePhaseRef' = [gamePhaseRef EXCEPT ![p] =
             IF isPhase /\ m.phase \in {"countdown", "playing"}
             THEN m.phase ELSE @]
        /\ countdown' = [countdown EXCEPT ![p] =
             IF isPhase /\ m.phase = "countdown" THEN m.countdown ELSE @]
        /\ queue' = [queue EXCEPT ![p] = Tail(@)]
  /\ UNCHANGED <<game, role, connected, countdownTimer, pongVars, interval,
                 dir1Ref, sigVars, chan, net, closeEvt, steps, inputs>>
  /\ UNCHANGED status
  /\ UNCHANGED solo
  /\ notePlaying

\* channel.onmessage
Snake_onmessage(p) ==
  /\ game = "snake" /\ channelOpen(p) /\ queue[p] # <<>>
  /\ LET m == Head(queue[p])
         isState == m.type = "gameState" /\ role[p] = "guest"
         isInput == ~isState /\ m.type = "input" /\ role[p] = "host"
         isPhase == ~isState /\ ~isInput /\ m.type = "phase"
     IN /\ gameState' = [gameState EXCEPT ![p] = IF isState THEN m.state ELSE @]
        /\ scores' = [scores EXCEPT ![p] =
             IF isState THEN ScoresOf(m.state) ELSE @]
        /\ dir2Ref' = [dir2Ref EXCEPT ![p] =
             IF isInput THEN acceptDir(@, m.direction) ELSE @]
        /\ gamePhase' = [gamePhase EXCEPT ![p] =
             IF isPhase /\ m.phase \in {"countdown", "playing"}
             THEN m.phase ELSE @]
        /\ gamePhaseRef' = [gamePhaseRef EXCEPT ![p] =
             IF isPhase /\ m.phase \in {"countdown", "playing"}
             THEN m.phase ELSE @]
        /\ countdown' = [countdown EXCEPT ![p] =
             IF isPhase /\ m.phase = "countdown" THEN m.countdown ELSE @]
        /\ queue' = [queue EXCEPT ![p] = Tail(@)]
  /\ UNCHANGED <<game, role, connected, countdownTimer, pongVars, interval,
                 dir1Ref, sigVars, chan, net, closeEvt, steps, inputs>>
  /\ UNCHANGED status
  /\ UNCHANGED solo
  /\ notePlaying

\* variant of Snake_stepGame: a crash leaves the interval timer running
Snake_stepGame_keepsTimer(p) ==
  /\ game = "snake" /\ interval[p]
  /\ steps < MaxSteps /\ CanSend(p, 1)
  /\ steps' = steps + 1
  /\ IF gamePhaseRef[p] # "playing"
     THEN UNCHANGED <<gameState, scores, gamePhaseRef, interval, queue>>
     ELSE \E food \in stepFoods(gameState[p], dir1Ref[p], dir2Ref[p]) :
            LET next == stepState(gameState[p], dir1Ref[p], dir2Ref[p], food)
                crash == next.phase = "over"
            IN /\ gameState' = [gameState EXCEPT ![p] = next]
               /\ scores' = [scores EXCEPT ![p] = ScoresOf(next)]
               /\ gamePhaseRef' = [gamePhaseRef EXCEPT ![p] =
                    IF crash THEN "over" ELSE @]
               /\ interval' = [interval EXCEPT ![p] = TRUE]
               /\ queue' = send(p, <<StateMsg(next)>>)
  /\ UNCHANGED <<game, role, connected, gamePhase, countdown, countdownTimer,
                 pongVars, dir1Ref, dir2Ref, sigVars, chan, net, closeEvt,
                 inputs>>
  /\ UNCHANGED status
  /\ UNCHANGED solo
  /\ notePlaying

\* stepGame, called by the interval timer
Snake_stepGame(p) ==
  /\ game = "snake" /\ interval[p]
  /\ steps < MaxSteps /\ CanSend(p, 1)
  /\ steps' = steps + 1
  /\ IF gamePhaseRef[p] # "playing"
     THEN UNCHANGED <<gameState, scores, gamePhaseRef, interval, queue>>
     ELSE \E food \in stepFoods(gameState[p], dir1Ref[p], dir2Ref[p]) :
            LET next == stepState(gameState[p], dir1Ref[p], dir2Ref[p], food)
                crash == next.phase = "over"
            IN /\ gameState' = [gameState EXCEPT ![p] = next]
               /\ scores' = [scores EXCEPT ![p] = ScoresOf(next)]
               /\ gamePhaseRef' = [gamePhaseRef EXCEPT ![p] =
                    IF crash THEN "over" ELSE @]
               /\ interval' = [interval EXCEPT ![p] = ~crash]
               /\ queue' = send(p, <<StateMsg(next)>>)
  /\ UNCHANGED <<game, role, connected, gamePhase, countdown, countdownTimer,
                 pongVars, dir1Ref, dir2Ref, sigVars, chan, net, closeEvt,
                 inputs>>
  /\ UNCHANGED status
  /\ UNCHANGED solo
  /\ notePlaying

\* endSession (the exit button or the Escape key)
Snake_endSession(p) ==
  /\ game = "snake"
  /\ mounted[p]
  /\ mounted' = [mounted EXCEPT ![p] = FALSE]
  /\ interval' = [interval EXCEPT ![p] = FALSE]
  /\ chan' = [chan EXCEPT ![p] = "none"]
  /\ pc' = [pc EXCEPT ![p] = 0]
  /\ answered' = [answered EXCEPT ![p] = FALSE]
  /\ connected' = [connected EXCEPT ![p] = FALSE]
  /\ inviteLink' = [inviteLink EXCEPT ![p] = <<>>]
  /\ answerCode' = [answerCode EXCEPT ![p] = <<>>]
  /\ answerInput' = [answerInput EXCEPT ![p] = <<>>]
  /\ role' = [role EXCEPT ![p] = "none"]
  /\ gamePhase' = [gamePhase EXCEPT ![p] = "idle"]
  /\ gamePhaseRef' = [gamePhaseRef EXCEPT ![p] = "idle"]
  /\ gameState' = [gameState EXCEPT ![p].phase = "idle"]
  /\ queue' = [queue EXCEPT ![p] = <<>>]
  /\ net' = FALSE
  /\ closeEvt' = [q \in Peers |->
       IF q = p THEN FALSE ELSE closeEvt[q] \/ (net /\ chan[q] = "open")]
  /\ UNCHANGED <<game, countdown, countdownTimer, pongVars, dir1Ref, dir2Ref,
                 scores, pending, steps, inputs>>
  /\ UNCHANGED status
  /\ UNCHANGED solo
  /\ notePlaying

\* handleKeyDown: an arrow key on the host, W/A/S/D on the guest
Snake_handleKeyDown(p, d) ==
  /\ game = "snake" /\ mounted[p] /\ role[p] # "none"
  /\ inputs < MaxInputs /\ CanSend(p, 1)
  /\ inputs' = inputs + 1
  /\ dir1Ref' = [dir1Ref EXCEPT ![p] =
       IF role[p] = "host" THEN acceptDir(@, d) ELSE @]
  /\ queue' = IF role[p] = "guest" /\ d # opposite(dir2Ref[p])
              THEN send(p, <<InputMsg(d)>>)
              ELSE queue
  /\ UNCHANGED <<game, role, connected, phaseVars, pongVars, interval, dir2Ref,
                 worldVars, sigVars, chan, net, closeEvt, steps>>
  /\ UNCHANGED status
  /\ UNCHANGED solo
  /\ notePlaying

\* the Game Over overlay with the restart button is rendered:
\* {gamePhase === "over" && (...)}.  Its onClick runs resetGameState() and, on
\* the host, startCountdown().
restartOffered(p) == game = "snake" /\ mounted[p] /\ gamePhase[p] = "over"

SnakeNext ==
  \E p \in Peers :
    \/ Snake_createGame(p)
    \/ Snake_urlOffer(p, afterKey(inviteLink[Other(p)], QueryKey))
    \/ Snake_onopen(p)
    \/ Snake_tick(p)
    \/ Snake_onclose(p)
    \/ Snake_onmessage(p)
    \/ Snake_stepGame(p)
    \/ Snake_endSession(p)
    \/ \E d \in Directions : Snake_handleKeyDown(p, d)

PongNext ==
  \E p \in Peers :
    \/ Pong_createGame(p)
    \/ Pong_urlOffer(p, afterKey(inviteLink[Other(p)], QueryKey))
    \/ Pong_onopen(p)
    \/ Pong_tick(p)
    \/ Pong_onclose(p)
    \/ Pong_onmessage(p)
    \/ Pong_updateGame(p)
    \/ Pong_endSession(p)
    \/ \E k \in Keys : Pong_handleKeyDown(p, k) \/ Pong_handleKeyUp(p, k)
    \/ \E v \in BallSpeeds : Pong_setBallSpeed(p, v)
    \/ Pong_capturePhoto(p)

SharedNext ==
  \E p \in Peers :
    \/ createGame_resume(p)
    \/ handleIncomingOffer_resume(p)
    \/ setAnswerInput(p, answerCode[Other(p)])
    \/ processAnswer(p)

Next == PongNext \/ SnakeNext \/ SharedNext

Spec == Init /\ [][Next]_vars

\* the timers set by setTimeout in tick fire
FairSpec ==
  Spec /\ \A p \in Peers : WF_vars(Pong_tick(p)) /\ WF_vars(Snake_tick(p))

(* ------------- a peer that sends its own setting (C26) ---------------- *)
\* the guest's end of the channel sends a peer-setting to the host; the
\* guest page of this program never does
peerSetting(p, v) ==
  /\ game = "pong" /\ role[p] = "guest"
  /\ channelOpen(p) /\ net /\ CanSend(p, 1) /\ inputs < MaxInputs
  /\ inputs' = inputs + 1
  /\ queue' = enqueue(p, <<SettingsMsg(v)>>)
  /\ UNCHANGED <<game, role, connected, phaseVars, pongVars, snakeVars,
                 worldVars, sigVars, chan, net, closeEvt, steps>>
  /\ UNCHANGED status
  /\ UNCHANGED solo
  /\ notePlaying

SettingsNext ==
  \/ Next
  \/ \E p \in Peers : \E v \in BallSpeeds : peerSetting(p, v)

SettingsSpec == Init /\ [][SettingsNext]_vars

(* -------- a peer that sends messages against its role (C27) ---------- *)
\* a state-snapshot and the control inputs, as the other end of the channel
\* may send them to a page whose branch for the type asks for the other role
StrayMessages ==
  IF game = "pong"
  THEN {StateMsg([PongInitialState EXCEPT !.score2 = 1]),
        InputMsg("up"), InputMsg("down")}
  ELSE {StateMsg([SnakeInitialState EXCEPT !.phase = "over", !.score2 = 1]),
        InputMsg("up"), InputMsg("right")}

\* the message m arrives at p: a state-snapshot at the host, a control input
\* at the guest; the pages of this program never send these
peerStray(p, m) ==
  /\ role[p] = (IF m.type = "gameState" THEN "host" ELSE "guest")
  /\ channelOpen(p) /\ net /\ Len(queue[p]) < MaxQueue
  /\ queue' = [queue EXCEPT ![p] = Append(@, m)]
  /\ UNCHANGED <<game, role, connected, phaseVars, pongVars, snakeVars,
                 worldVars, sigVars, chan, net, closeEvt, steps, inputs>>
  /\ UNCHANGED status
  /\ UNCHANGED solo
  /\ notePlaying

StrayNext ==
  \/ Next
  \/ \E p \in Peers : \E m \in StrayMessages : peerStray(p, m)

StraySpec == Init /\ [][StrayNext]_vars

(* ------------ the platform rejects the negotiation (C21) -------------- *)
\* a connection that has no description yet
NoSession == Len(Sdps) + 1

\* createGame when createOffer or setLocalDescription rejects: the lines
\* before the await have run, the rest of the function never does, and
\* nothing catches the rejection
Pong_createGame_rejected(p) ==
  /\ game = "pong" /\ p = "H"
  /\ mounted[p] /\ role[p] = "none" /\ ~isImmersive(p)
  /\ pending[p] = 0
  /\ role' = [role EXCEPT ![p] = "host"]
  /\ gamePhase' = [gamePhase EXCEPT ![p] = "lobby"]
  /\ gamePhaseRef' = [gamePhaseRef EXCEPT ![p] = "lobby"]
  /\ pc' = [pc EXCEPT ![p] = NoSession]
  /\ chan' = [chan EXCEPT ![p] = "connecting"]
  /\ answered' = [answered EXCEPT ![p] = FALSE]
  /\ UNCHANGED <<game, connected, countdown, countdownTimer, pongVars,
                 snakeVars, worldVars, pending, inviteLink, answerCode,
                 answerInput, mounted, queue, net, closeEvt, steps, inputs>>
  /\ setStatus(p, "Vytvaram hru...")
  /\ UNCHANGED solo
  /\ notePlaying

Snake_createGame_rejected(p) ==
  /\ game = "snake" /\ p = "H"
  /\ mounted[p] /\ role[p] = "none" /\ ~isImmersive(p)
  /\ pending[p] = 0
  /\ role' = [role EXCEPT ![p] = "host"]
  /\ \E food \in placeFood(InitialSnake1, InitialSnake2) :
       gameState' = [gameState EXCEPT ![p] = resetGameState(food)]
  /\ dir1Ref' = [dir1Ref EXCEPT ![p] = "right"]
  /\ dir2Ref' = [dir2Ref EXCEPT ![p] = "left"]
  /\ scores' = [scores EXCEPT ![p] = [score1 |-> 0, score2 |-> 0]]
  /\ gamePhase' = [gamePhase EXCEPT ![p] = "lobby"]
  /\ gamePhaseRef' = [gamePhaseRef EXCEPT ![p] = "lobby"]
  /\ pc' = [pc EXCEPT ![p] = NoSession]
  /\ chan' = [chan EXCEPT ![p] = "connecting"]
  /\ answered' = [answered EXCEPT ![p] = FALSE]
  /\ UNCHANGED <<game, connected, countdown, countdownTimer, pongVars,
                 interval, pending, inviteLink, answerCode, answerInput,
                 mounted, queue, net, closeEvt, steps, inputs>>
  /\ setStatus(p, "Vytvaram hru...")
  /\ UNCHANGED solo
  /\ notePlaying

\* handleIncomingOffer when setRemoteDescription, createAnswer or
\* setLocalDescription rejects: the effect's try block has returned by then
Pong_handleIncomingOffer_rejected(p, data) ==
  /\ game = "pong" /\ p = "G"
  /\ mounted[p] /\ role[p] = "none" /\ pending[p] = 0
  /\ data # <<>> /\ decodeFromURL(data) # DecodeError
  /\ role' = [role EXCEPT ![p] = "guest"]
  /\ gamePhase' = [gamePhase EXCEPT ![p] = "lobby"]
  /\ gamePhaseRef' = [gamePhaseRef EXCEPT ![p] = "lobby"]
  /\ pc' = [pc EXCEPT ![p] = NoSession]
  /\ UNCHANGED <<game, connected, countdown, countdownTimer, pongVars,
                 snakeVars, worldVars, pending, inviteLink, answerCode,
                 answerInput, answered, mounted, netVars, steps, inputs>>
  /\ setStatus(p, "Aplikujem ponuku od hostitela...")
  /\ UNCHANGED solo
  /\ notePlaying

Snake_handleIncomingOffer_rejected(p, data) ==
  /\ game = "snake" /\ p = "G"
  /\ mounted[p] /\ role[p] = "none" /\ pending[p] = 0
  /\ data # <<>> /\ decodeFromURL(data) # DecodeError
  /\ role' = [role EXCEPT ![p] = "guest"]
  /\ pc' = [pc EXCEPT ![p] = NoSession]
  /\ UNCHANGED <<game, connected, phaseVars, pongVars, snakeVars, worldVars,
                 pending, inviteLink, answerCode, answerInput, answered,
                 mounted, netVars, steps, inputs>>
  /\ setStatus(p, "Pripajam sa k hostovi...")
  /\ UNCHANGED solo
  /\ notePlaying

negotiation_rejected(p) ==
  \/ Pong_createGame_rejected(p)
  \/ Snake_createGame_rejected(p)
  \/ Pong_handleIncomingOffer_rejected(
       p, afterKey(inviteLink[Other(p)], QueryKey))
  \/ Snake_handleIncomingOffer_rejected(
       p, afterKey(inviteLink[Other(p)], QueryKey))

\* the two pages on a platform that may reject a negotiation
RejectNext ==
  \/ Next
  \/ \E p \in Peers : negotiation_rejected(p)

RejectSpec == Init /\ [][RejectNext]_vars

(* ------------- the exchange of the two codes (C19, C20) --------------- *)
\* a token as it arrives after a careless copy: cut short at either end, or
\* with a character outside the alphabet
Damaged(token) ==
  {SubSeq(token, 1, Len(token) - 1), Tail(token), Append(token, "!")}

\* what the guest's address can carry as the offer: the host's token, whole
\* or damaged
Links ==
  LET token == afterKey(inviteLink["H"], QueryKey)
  IN IF token = <<>> THEN {} ELSE {token} \cup Damaged(token)

\* what the host can put into the answer field: blanks, other text, the
\* guest's code (bare, or behind the query key of a link), whole or damaged
Pastes ==
  {<<" ">>, <<"x", "!">>}
    \cup (IF answerCode["G"] = <<>> THEN {}
          ELSE {answerCode["G"], linkOf(answerCode["G"]),
                <<" ">> \o answerCode["G"]} \cup Damaged(answerCode["G"]))

\* the host's page when createGame awaits waitForICE, for each session
LobbyInit ==
  /\ game \in Games
  /\ role = [p \in Peers |-> IF p = "H" THEN "host" ELSE "none"]
  /\ gamePhase = [p \in Peers |-> IF p = "H" THEN "lobby" ELSE "idle"]
  /\ gamePhaseRef = [p \in Peers |-> IF p = "H" THEN "lobby" ELSE "idle"]
  /\ countdown = [p \in Peers |-> COUNTDOWN_START]
  /\ countdownTimer = [p \in Peers |-> NoTimer]
  /\ connected = [p \in Peers |-> FALSE]
  /\ gameLoop = [p \in Peers |-> FALSE]
  /\ interval = [p \in Peers |-> FALSE]
  /\ keys = [p \in Peers |-> {}]
  /\ ballSpeed = [p \in Peers |-> Px(DEFAULT_BALL_SPEED)]
  /\ face = [p \in Peers |-> [host |-> FALSE, guest |-> FALSE]]
  /\ gameState = [p \in Peers |->
       IF game = "pong" THEN PongInitialState
       ELSE IF p = "H" THEN resetGameState(Cell(12, 6))
       ELSE SnakeInitialState]
  /\ scores = [p \in Peers |-> [score1 |-> 0, score2 |-> 0]]
  /\ dir1Ref = [p \in Peers |-> "right"]
  /\ dir2Ref = [p \in Peers |-> "left"]
  /\ \E id \in Sessions :
       /\ pc = [p \in Peers |-> IF p = "H" THEN id ELSE 0]
       /\ pending = [p \in Peers |-> IF p = "H" THEN id ELSE 0]
  /\ chan = [p \in Peers |-> IF p = "H" THEN "connecting" ELSE "none"]
  /\ queue = [p \in Peers |-> <<>>]
  /\ net = FALSE
  /\ closeEvt = [p \in Peers |-> FALSE]
  /\ inviteLink = [p \in Peers |-> <<>>]
  /\ answerCode = [p \in Peers |-> <<>>]
  /\ answerInput = [p \in Peers |-> <<>>]
  /\ status = [p \in Peers |->
       IF p = "H" THEN "Cakam na ICE kandidatov..."
       ELSE "Pripravene na vytvorenie hry"]
  /\ answered = [p \in Peers |-> FALSE]
  /\ mounted = [p \in Peers |-> TRUE]
  /\ steps = 0
  /\ inputs = 0
  /\ reachedPlaying = [p \in Peers |-> FALSE]
  /\ solo = SoloInitialState

\* the steps of the exchange, up to the applied answer
LobbyNext ==
  \/ createGame_resume("H")
  \/ \E data \in Links : Pong_urlOffer("G", data)
  \/ \E data \in Links : Snake_urlOffer("G", data)
  \/ handleIncomingOffer_resume("G")
  \/ \E text \in Pastes : setAnswerInput("H", text)
  \/ processAnswer("H")

LobbySpec == LobbyInit /\ [][LobbyNext]_vars

\* the step in which the function that awaits waitForICE goes on
waitForICE_done(p) ==
  waitForICE_resolves(p) /\ pending' = [pending EXCEPT ![p] = 0]

\* the exchange, where the timeout set by waitForICE fires
IceSpec == LobbySpec /\ \A p \in Peers : WF_pending(waitForICE_done(p))

(* ------------- messages the own program never sends (C11) ------------- *)
\* what gameStateRef.current holds after `gameStateRef.current = message.state`
\* with a message that has no state field
Undefined == [undefined |-> TRUE]

\* messages of an unknown type, or of a known type with a field missing
Malformed ==
  {[type |-> "bogus"], [type |-> "gameState"], [type |-> "input"],
   [type |-> "phase"], [type |-> "phase", phase |-> "countdown"],
   [type |-> "settings"]}

\* no handler of the page has run into `undefined` so far
Healthy == \A p \in Peers : gameState[p] # Undefined

\* channel.onmessage of either game, applied to a message m of Malformed.
\* The snapshot branch assigns message.state and then reads score1 of it,
\* which throws a TypeError when the field is missing; the phase branch
\* takes `message.countdown ?? 3`; every other branch finds nothing to do.
onmessage_malformed(p, m) ==
  /\ Healthy /\ channelOpen(p)
  /\ LET isState == m.type = "gameState" /\ role[p] = "guest"
         isCountdown == ~isState /\ m.type = "phase"
                          /\ "phase" \in DOMAIN m /\ m.phase = "countdown"
     IN /\ gameState' = [gameState EXCEPT ![p] =
             IF isState THEN Undefined ELSE @]
        /\ gamePhase' = [gamePhase EXCEPT ![p] =
             IF isCountdown THEN "countdown" ELSE @]
        /\ gamePhaseRef' = [gamePhaseRef EXCEPT ![p] =
             IF isCountdown THEN "countdown" ELSE @]
        /\ countdown' = [countdown EXCEPT ![p] =
             IF isCountdown THEN COUNTDOWN_START ELSE @]
  /\ UNCHANGED <<game, role, connected, countdownTimer, pongVars, snakeVars,
                 scores, sigVars, netVars, steps, inputs>>
  /\ UNCHANGED status
  /\ UNCHANGED solo
  /\ notePlaying

\* the two pages, with a peer that may also send the messages of Malformed;
\* a page is followed up to its first uncaught exception
MalformedNext ==
  \/ Healthy /\ Next
  \/ \E p \in Peers : \E m \in Malformed : onmessage_malformed(p, m)

MalformedSpec == Init /\ [][MalformedNext]_vars


(* ------------- paddles that have travelled (C28, C29) ----------------- *)
\* the world state after n frames of updateGame outside phase "playing" with
\* the keys ks held on the host
RECURSIVE held(_, _, _)
held(state, ks, n) ==
  IF n = 0 THEN state
  ELSE IF n = 1 THEN movePaddle1(state, ks)
  ELSE LET half == held(state, ks, n \div 2)
       IN IF half.paddle1Y >= 0    \* the first half is done first
          THEN held(half, ks, n - n \div 2)
          ELSE half

\* the world state after n control inputs of one direction have been handled
RECURSIVE pressed(_, _, _)
pressed(state, direction, n) ==
  IF n = 0 THEN state
  ELSE IF n = 1 THEN applyInput(state, direction)
  ELSE LET half == pressed(state, direction, n \div 2)
       IN IF half.paddle2Y >= 0    \* the first half is done first
          THEN pressed(half, direction, n - n \div 2)
          ELSE half

\* how far a paddle has travelled before the game is picked up: not at all,
\* to one or two steps before a boundary, onto the boundary
CourtTravels ==
  {<<"up", 0>>, <<"up", 28>>, <<"up", 29>>, <<"up", 30>>,
   <<"down", 28>>, <<"down", 29>>, <<"down", 30>>}

\* both pages of the paddle game connected and in phase "playing", the guest
\* holding the host's last snapshot and nothing in flight
CourtInit ==
  /\ game = "pong"
  /\ role = [p \in Peers |-> IF p = "H" THEN "host" ELSE "guest"]
  /\ gamePhase = [p \in Peers |-> "playing"]
  /\ gamePhaseRef = [p \in Peers |-> "playing"]
  /\ countdown = [p \in Peers |-> 0]
  /\ countdownTimer = [p \in Peers |-> NoTimer]
  /\ connected = [p \in Peers |-> TRUE]
  /\ gameLoop = [p \in Peers |-> TRUE]
  /\ interval = [p \in Peers |-> FALSE]
  /\ keys = [p \in Peers |-> {}]
  /\ ballSpeed = [p \in Peers |-> Px(DEFAULT_BALL_SPEED)]
  /\ face = [p \in Peers |-> [host |-> FALSE, guest |-> FALSE]]
  /\ \E t1 \in CourtTravels : \E t2 \in CourtTravels :
       LET world == pressed(held(resetState(Px(DEFAULT_BALL_SPEED)),
                                 {IF t1[1] = "up" THEN "ArrowUp" ELSE "ArrowDown"}, t1[2]),
                            t2[1], t2[2])
       IN /\ gameState = [p \in Peers |-> world]
          /\ scores = [p \in Peers |-> ScoresOf(world)]
  /\ dir1Ref = [p \in Peers |-> "right"]
  /\ dir2Ref = [p \in Peers |-> "left"]
  /\ pc = [p \in Peers |-> 1]
  /\ chan = [p \in Peers |-> "open"]
  /\ queue = [p \in Peers |-> <<>>]
  /\ net = TRUE
  /\ closeEvt = [p \in Peers |-> FALSE]
  /\ pending = [p \in Peers |-> 0]
  /\ inviteLink = [p \in Peers |->
       IF p = "H" THEN linkOf(encodeForURL(localDescription(Offer, 1)))
       ELSE <<>>]
  /\ answerCode = [p \in Peers |->
       IF p = "G" THEN encodeForURL(localDescription(Answer, 1)) ELSE <<>>]
  /\ answerInput = [p \in Peers |->
       IF p = "H" THEN encodeForURL(localDescription(Answer, 1)) ELSE <<>>]
  /\ status = [p \in Peers |-> "Pripojene!"]
  /\ answered = [p \in Peers |-> p = "H"]
  /\ mounted = [p \in Peers |-> TRUE]
  /\ steps = 0
  /\ inputs = 0
  /\ reachedPlaying = [p \in Peers |-> TRUE]
  /\ solo = SoloInitialState

\* the handlers of the paddle game that can run from there
CourtNext ==
  \E p \in Peers :
    \/ Pong_updateGame(p)
    \/ Pong_onmessage(p)
    \/ \E k \in Keys : Pong_handleKeyDown(p, k) \/ Pong_handleKeyUp(p, k)
    \/ Pong_endSession(p)
    \/ Pong_onclose(p)

CourtSpec == CourtInit /\ [][CourtNext]_vars

(* ---------------- sessions picked up in mid-play ---------------------- *)
\* the world state of the paddle game after n more frames of updateGame in
\* phase "playing" with no key held; rnd is the draw of every resetBall
RECURSIVE fly(_, _, _, _)
fly(state, speed, rnd, n) ==
  IF n = 0 THEN state
  ELSE IF n = 1 THEN hostFrame(state, {}, "playing", speed, rnd)
  ELSE LET half == fly(state, speed, rnd, n \div 2)
       IN IF half.score1 + half.score2 >= 0    \* the first half is done first
          THEN fly(half, speed, rnd, n - n \div 2)
          ELSE half

\* the world state of the chase game after n more steps of stepGame in phase
\* "playing" with the buffered directions d1 and d2 and no snake eating
RECURSIVE run(_, _, _, _)
run(state, d1, d2, n) ==
  IF n = 0 THEN state
  ELSE run(stepState(state, d1, d2, state.food), d1, d2, n - 1)

\* frames played before the paddle game is picked up: none, the ball about to
\* leave on the right, the ball about to leave on the left after one point
ArenaFrames == {0, 80, 161}

\* the direction the host turned to before the first step, the steps played
\* before the chase game is picked up and the food drawn by resetGameState:
\* the start (food ahead of snake 1 or away from it), the snakes about to meet
\* on their row, snake 1 about to reach the top wall
ArenaRuns ==
  {<<"right", 0, Cell(5, 8)>>, <<"right", 0, Cell(12, 6)>>,
   <<"right", 6, Cell(12, 6)>>, <<"right", 7, Cell(12, 6)>>,
   <<"up", 8, Cell(12, 6)>>}

\* both pages connected and in phase "playing" after the countdown, the guest
\* holding the host's last snapshot and nothing in flight
ArenaInit ==
  /\ game \in Games
  /\ role = [p \in Peers |-> IF p = "H" THEN "host" ELSE "guest"]
  /\ gamePhase = [p \in Peers |-> "playing"]
  /\ gamePhaseRef = [p \in Peers |-> "playing"]
  /\ countdown = [p \in Peers |-> 0]
  /\ countdownTimer = [p \in Peers |-> NoTimer]
  /\ connected = [p \in Peers |-> TRUE]
  /\ gameLoop = [p \in Peers |-> game = "pong"]
  /\ interval = [p \in Peers |-> game = "snake" /\ p = "H"]
  /\ keys = [p \in Peers |-> {}]
  /\ ballSpeed = [p \in Peers |-> Px(DEFAULT_BALL_SPEED)]
  /\ face = [p \in Peers |-> [host |-> FALSE, guest |-> FALSE]]
  /\ \E rnd \in {1, -1} : \E n \in ArenaFrames : \E r \in ArenaRuns :
       LET world ==
             IF game = "pong"
             THEN fly(resetState(Px(DEFAULT_BALL_SPEED)),
                      Px(DEFAULT_BALL_SPEED), rnd, n)
             ELSE run(resetGameState(r[3]), r[1], "left", r[2])
       IN /\ gameState = [p \in Peers |-> world]
          /\ scores = [p \in Peers |-> ScoresOf(world)]
          /\ dir1Ref = [p \in Peers |->
               IF game = "snake" /\ p = "H" THEN r[1] ELSE "right"]
  /\ dir2Ref = [p \in Peers |-> "left"]
  /\ pc = [p \in Peers |-> 1]
  /\ chan = [p \in Peers |-> "open"]
  /\ queue = [p \in Peers |-> <<>>]
  /\ net = TRUE
  /\ closeEvt = [p \in Peers |-> FALSE]
  /\ pending = [p \in Peers |-> 0]
  /\ inviteLink = [p \in Peers |->
       IF p = "H" THEN linkOf(encodeForURL(localDescription(Offer, 1)))
       ELSE <<>>]
  /\ answerCode = [p \in Peers |->
       IF p = "G" THEN encodeForURL(localDescription(Answer, 1)) ELSE <<>>]
  /\ answerInput = [p \in Peers |->
       IF p = "H" THEN encodeForURL(localDescription(Answer, 1)) ELSE <<>>]
  /\ status = [p \in Peers |->
       IF game = "pong" THEN "Pripojene!" ELSE "Pripojene"]
  /\ answered = [p \in Peers |-> p = "H"]
  /\ mounted = [p \in Peers |-> TRUE]
  /\ steps = 0
  /\ inputs = 0
  /\ reachedPlaying = [p \in Peers |-> TRUE]
  /\ solo = SoloInitialState

\* the handlers that can run from there
ArenaNext ==
  \E p \in Peers :
    \/ Pong_updateGame(p)
    \/ Pong_onmessage(p)
    \/ \E k \in Keys : Pong_handleKeyDown(p, k) \/ Pong_handleKeyUp(p, k)
    \/ Pong_endSession(p)
    \/ Pong_onclose(p)
    \/ Snake_stepGame(p)
    \/ Snake_onmessage(p)
    \/ \E d \in Directions : Snake_handleKeyDown(p, d)
    \/ Snake_endSession(p)
    \/ Snake_onclose(p)

ArenaSpec == ArenaInit /\ [][ArenaNext]_vars

(* ------------- the solo snake game (src/src/SnakeGame.tsx) ------------ *)
BOARD_SIZE == 18

\* bound: the steps of the solo game that are followed
MaxSoloSteps == 9

OFFSETS(d) ==
  CASE d = "up" -> Cell(0, 0 - 1)
    [] d = "down" -> Cell(0, 1)
    [] d = "left" -> Cell(0 - 1, 0)
    [] d = "right" -> Cell(1, 0)

\* placeFoodFromSnake(currentSnake): the cells the redraw loop can end on,
\* with two cells Math.random is let to propose first
placeFoodFromSnake(currentSnake) ==
  LET proposed == {Cell(10, 6), Cell(12, 8)}
      board == {Cell(cx, cy) : cx \in 0..(BOARD_SIZE - 1),
                               cy \in 0..(BOARD_SIZE - 1)}
  IN IF proposed \ Cells(currentSnake) # {}
     THEN proposed \ Cells(currentSnake)
     ELSE board \ Cells(currentSnake)

\* variant of turnAllowed: the key is compared with the pending direction
turnAllowed_againstPending(s, k) ==
  \/ k = "ArrowUp" /\ s.pendingDirection # "down"
  \/ k = "ArrowDown" /\ s.pendingDirection # "up"
  \/ k = "ArrowLeft" /\ s.pendingDirection # "right"
  \/ k = "ArrowRight" /\ s.pendingDirection # "left"

\* keydown handler: the conditions under which an arrow key is taken
turnAllowed(s, k) ==
  \/ k = "ArrowUp" /\ s.direction # "down"
  \/ k = "ArrowDown" /\ s.direction # "up"
  \/ k = "ArrowLeft" /\ s.direction # "right"
  \/ k = "ArrowRight" /\ s.direction # "left"

\* resetGame(), followed by the [snake] effect (setDirection(pending))
resetGame(s) ==
  [s EXCEPT !.snake = <<Cell(4, 8), Cell(3, 8), Cell(2, 8)>>,
            !.direction = "right", !.pendingDirection = "right",
            !.food = Cell(10, 8), !.score = 0, !.gameOver = FALSE,
            !.used = "none"]

\* step: the proposed head is off the board or on the snake
soloCrash(s) ==
  LET next == Cell(s.snake[1].x + OFFSETS(s.pendingDirection).x,
                   s.snake[1].y + OFFSETS(s.pendingDirection).y)
  IN \/ next.x < 0 \/ next.x >= BOARD_SIZE
     \/ next.y < 0 \/ next.y >= BOARD_SIZE
     \/ next \in Cells(s.snake)

\* step, called by the interval timer that runs while running is true; the
\* [snake] effect copies the pending direction when the snake has changed
Solo_step ==
  /\ game = "solo" /\ solo.running /\ steps < MaxSoloSteps
  /\ steps' = steps + 1
  /\ LET next == Cell(solo.snake[1].x + OFFSETS(solo.pendingDirection).x,
                      solo.snake[1].y + OFFSETS(solo.pendingDirection).y)
         ate == next = solo.food
         newSnake == IF ate THEN <<next>> \o solo.snake
                     ELSE <<next>> \o SubSeq(solo.snake, 1, Len(solo.snake) - 1)
     IN IF soloCrash(solo)
        THEN solo' = [solo EXCEPT !.gameOver = TRUE, !.running = FALSE,
                                  !.used = solo.pendingDirection]
        ELSE \E food \in (IF ate THEN placeFoodFromSnake(newSnake)
                          ELSE {solo.food}) :
               solo' = [solo EXCEPT !.snake = newSnake,
                                    !.direction = solo.pendingDirection,
                                    !.food = food,
                                    !.score = IF ate THEN @ + 10 ELSE @,
                                    !.used = solo.pendingDirection]
  /\ UNCHANGED <<game, role, connected, phaseVars, pongVars, snakeVars,
                 worldVars, sigVars, status, netVars, inputs, reachedPlaying>>

\* the keydown handler
Solo_keydown(k) ==
  /\ game = "solo"
  /\ solo' =
       IF k = " " THEN [solo EXCEPT !.running = ~@]
       ELSE IF k = "r" THEN [resetGame(solo) EXCEPT !.running = TRUE]
       ELSE IF turnAllowed(solo, k)
       THEN [solo EXCEPT !.pendingDirection =
               CASE k = "ArrowUp" -> "up"
                 [] k = "ArrowDown" -> "down"
                 [] k = "ArrowLeft" -> "left"
                 [] k = "ArrowRight" -> "right"]
       ELSE solo
  /\ UNCHANGED steps
  /\ UNCHANGED <<game, role, connected, phaseVars, pongVars, snakeVars,
                 worldVars, sigVars, status, netVars, inputs, reachedPlaying>>

\* the button of the header: onClick={resetGame}
Solo_resetGame ==
  /\ game = "solo"
  /\ solo' = resetGame(solo)
  /\ UNCHANGED steps
  /\ UNCHANGED <<game, role, connected, phaseVars, pongVars, snakeVars,
                 worldVars, sigVars, status, netVars, inputs, reachedPlaying>>

\* the button of the start overlay: onClick={() => setRunning(true)}
Solo_start ==
  /\ game = "solo" /\ ~solo.running /\ ~solo.gameOver
  /\ solo' = [solo EXCEPT !.running = TRUE]
  /\ UNCHANGED steps
  /\ UNCHANGED <<game, role, connected, phaseVars, pongVars, snakeVars,
                 worldVars, sigVars, status, netVars, inputs, reachedPlaying>>

\* the button of the Game Over overlay: resetGame(); setRunning(true)
Solo_playAgain ==
  /\ game = "solo" /\ solo.gameOver
  /\ solo' = [resetGame(solo) EXCEPT !.running = TRUE]
  /\ UNCHANGED steps
  /\ UNCHANGED <<game, role, connected, phaseVars, pongVars, snakeVars,
                 worldVars, sigVars, status, netVars, inputs, reachedPlaying>>

\* component SnakeGame as constructed
SoloInit == game = "solo" /\ PagesInit

SoloNext ==
  \/ Solo_step
  \/ \E k \in {"ArrowUp", "ArrowDown", "ArrowLeft", "ArrowRight", " ", "r"} :
       Solo_keydown(k)
  \/ Solo_resetGame
  \/ Solo_start
  \/ Solo_playAgain

SoloSpec == SoloInit /\ [][SoloNext]_vars

(* ============================== claims ================================= *)

\* C1: in the paddle game no step of the host that runs while its phase is
\* not "playing" (an animation frame, a message handler, a key handler)
\* changes a field of the host's world state.
C1_HostWorldFrozenOutsidePlaying ==
  [][(/\ game = "pong"
      /\ role["H"] = "host" /\ role'["H"] = "host"
      /\ gamePhaseRef["H"] # "playing"
      /\ ballSpeed' = ballSpeed)
     => gameState'["H"] = gameState["H"]]_vars

\* C2: in the paddle game the host's handler of an "input" message leaves
\* paddle2Y as it was.
C2_InputHandlerLeavesPaddle2 ==
  [][(Pong_onmessage("H") /\ role["H"] = "host"
        /\ Head(queue["H"]).type = "input")
     => gameState'["H"].paddle2Y = gameState["H"].paddle2Y]_vars

\* C3: in the chase game the host's handler of an "input" message only
\* buffers the turn in dir2Ref (unless it reverses the buffered direction) and
\* leaves the world state alone; stepGame changes nothing while the phase is
\* not "playing"; a step in phase "playing" takes dir2 from the buffer and
\* moves snake 2's head one cell that way.
C3_InputBufferedUntilStep ==
  [][\A p \in Peers :
       /\ (Snake_onmessage(p) /\ role[p] = "host"
             /\ Head(queue[p]).type = "input")
          => /\ gameState'[p] = gameState[p]
             /\ dir2Ref'[p] =
                  IF Head(queue[p]).direction = opposite(dir2Ref[p])
                  THEN dir2Ref[p] ELSE Head(queue[p]).direction
       /\ (Snake_stepGame(p) /\ gamePhaseRef[p] # "playing")
          => /\ gameState' = gameState /\ scores' = scores
             /\ dir2Ref' = dir2Ref /\ gamePhaseRef' = gamePhaseRef
       /\ (Snake_stepGame(p) /\ gamePhaseRef[p] = "playing")
          => /\ gameState'[p].dir2 = dir2Ref[p]
             /\ gameState'[p].phase # "over"
                => gameState'[p].snake2[1] =
                     Cell(gameState[p].snake2[1].x + delta(dir2Ref[p]).x,
                          gameState[p].snake2[1].y + delta(dir2Ref[p]).y)]_vars

\* the host has stepped with a turn "up" received from the guest
C3_Witness ==
  /\ game = "snake" /\ role["H"] = "host"
  /\ dir2Ref["H"] = "up" /\ gameState["H"].dir2 = "up"
  /\ gameState["H"].snake2[1] = Cell(InitialSnake2[1].x, InitialSnake2[1].y - 1)

\* C4: on the guest a delivered snapshot replaces the world state and the
\* displayed scores by its payload, and no other step of the guest, short of
\* ending the session, changes them.
C4_GuestMirrorsLastSnapshot ==
  [][\A p \in Peers : role[p] = "guest" =>
       IF (Pong_onmessage(p) \/ Snake_onmessage(p))
            /\ Head(queue[p]).type = "gameState"
       THEN /\ gameState'[p] = Head(queue[p]).state
            /\ scores'[p] = [score1 |-> Head(queue[p]).state.score1,
                             score2 |-> Head(queue[p]).state.score2]
       ELSE role'[p] = "guest"
              => gameState'[p] = gameState[p] /\ scores'[p] = scores[p]]_vars

\* the guest shows a snapshot in which player 1 has scored
C4_Witness ==
  /\ role["G"] = "guest"
  /\ gameState["G"].score1 = 1 /\ gameState["G"].score2 = 0
  /\ scores["G"] = [score1 |-> 1, score2 |-> 0]

\* C5: the host's countdown starts at 3, every tick shows and broadcasts the
\* value one below the last, the phase becomes "playing" at the tick of
\* value 0 and at no other step, and a countdown that has started reaches
\* "playing".
C5_CountdownReachesPlaying ==
  /\ [][\A p \in Peers : role[p] = "host" =>
          /\ (role'[p] = "host" /\ gamePhaseRef[p] # "countdown"
                /\ gamePhaseRef'[p] = "countdown")
             => /\ countdown'[p] = COUNTDOWN_START
                /\ countdownTimer'[p] = COUNTDOWN_START - 1
          /\ (countdownTimer[p] # NoTimer
                /\ countdownTimer'[p] # countdownTimer[p])
             => /\ countdown'[p] = countdown[p] - 1
                /\ countdown'[p] >= 0
                /\ (gamePhaseRef'[p] = "playing") <=> (countdown'[p] = 0)
                /\ (channelOpen(p) /\ net)
                   => queue'[Other(p)] =
                        queue[Other(p)] \o <<CountdownMsg(countdown[p] - 1)>>
                          \o (IF countdown[p] = 1
                              THEN <<PhaseMsg("playing")>> ELSE <<>>)
          /\ (gamePhaseRef[p] # "playing" /\ gamePhaseRef'[p] = "playing")
             => countdownTimer[p] = 0 /\ countdown[p] = 1]_vars
  /\ \A p \in Peers :
       (role[p] = "host" /\ gamePhaseRef[p] = "countdown")
         ~> (gamePhaseRef[p] = "playing")

\* the host's countdown has run down to 0 and the host is playing
C5_Witness ==
  /\ role["H"] = "host" /\ gamePhaseRef["H"] = "playing"
  /\ gamePhase["H"] = "playing"
  /\ countdown["H"] = 0 /\ countdownTimer["H"] = NoTimer

\* C6: once endSession has run, the countdown timer and the simulation timer
\* are stopped and the phase is "idle" with role "none".
C6_EndSessionStopsTimers ==
  \A p \in Peers :
    ~mounted[p] =>
      /\ countdownTimer[p] = NoTimer
      /\ ~gameLoop[p] /\ ~interval[p]
      /\ role[p] = "none"
      /\ gamePhase[p] = "idle" /\ gamePhaseRef[p] = "idle"

\* C7: once a side has handled the close event of its channel, its phase is
\* "idle", and stays so for the rest of the session.
C7_CloseSetsIdle ==
  \A p \in Peers :
    chan[p] = "closed" => gamePhase[p] = "idle" /\ gamePhaseRef[p] = "idle"

\* C8: once the host has handled the close event of its channel, it runs no
\* further simulation step and sends no further snapshot.
C8_NoStepAfterClose ==
  [][(chan["H"] = "closed" /\ role["H"] = "host")
     => /\ ~Pong_updateGame("H")
        /\ ~(Snake_stepGame("H") /\ gamePhaseRef["H"] = "playing")
        /\ queue'["G"] = queue["G"] \/ queue'["G"] = <<>>]_vars

\* C9: whenever both channels are open and nothing is in flight to the guest,
\* the guest's phase is the host's, "over" included.
C9_GuestFollowsHostPhase ==
  (/\ role["H"] = "host" /\ role["G"] = "guest"
   /\ chan["H"] = "open" /\ chan["G"] = "open" /\ net
   /\ queue["G"] = <<>>)
  => gamePhaseRef["G"] = gamePhaseRef["H"] /\ gamePhase["G"] = gamePhase["H"]

\* C10: a countdown timer is started only by the host, in the step in which
\* its channel opens; the guest's phase becomes "countdown" or "playing" only
\* by taking a phase message naming that phase off its channel; and the guest
\* is never "playing" unless the host has been.
C10_HostLeadsPhases ==
  /\ [][\A p \in Peers :
          /\ (countdownTimer[p] = NoTimer /\ countdownTimer'[p] # NoTimer)
             => /\ role[p] = "host" /\ role'[p] = "host"
                /\ chan[p] # "open" /\ chan'[p] = "open"
          /\ (role[p] = "guest" /\ gamePhaseRef'[p] # gamePhaseRef[p]
                /\ gamePhaseRef'[p] \in {"countdown", "playing"})
             => /\ channelOpen(p) /\ queue[p] # <<>>
                /\ Head(queue[p]).type = "phase"
                /\ Head(queue[p]).phase = gamePhaseRef'[p]
                /\ queue'[p] = Tail(queue[p])]_vars
  /\ [](\A p \in Peers :
          (role[p] = "guest" /\ gamePhaseRef[p] = "playing")
            => reachedPlaying[Other(p)])

\* the guest has been told to play
C10_Witness ==
  /\ role["G"] = "guest" /\ gamePhaseRef["G"] = "playing"
  /\ gamePhase["G"] = "playing" /\ role["H"] = "host"

\* C11: a message of an unknown type, or of a known type with a required
\* field missing, is dropped: the handler leaves the receiver's role, phase,
\* world state and scores as they were.
C11_MalformedDropped ==
  [][\A p \in Peers : \A m \in Malformed :
       onmessage_malformed(p, m)
         => /\ role'[p] = role[p]
            /\ gamePhase'[p] = gamePhase[p]
            /\ gamePhaseRef'[p] = gamePhaseRef[p]
            /\ gameState'[p] = gameState[p]
            /\ scores'[p] = scores[p]]_vars

\* C12: paddle game.  The step in which the host's channel opens is the
\* host's first send, and it sends its face image if it holds one, then the
\* ball speed, then the first countdown message, in this order; the step in
\* which the guest's channel opens sends the guest's face image if it holds
\* one and nothing else.
C12_OpenSendsInOrder ==
  [][\A p \in Peers :
       (game = "pong" /\ chan[p] # "open" /\ chan'[p] = "open")
         => /\ queue[Other(p)] = <<>>
            /\ role[p] = "host"
               => queue'[Other(p)] =
                    (IF face[p].host
                     THEN <<[type |-> "hostFace", data |-> TRUE]>> ELSE <<>>)
                    \o <<[type |-> "settings", ballSpeed |-> ballSpeed[p]],
                         [type |-> "phase", phase |-> "countdown",
                          countdown |-> COUNTDOWN_START]>>
            /\ role[p] = "guest"
               => queue'[Other(p)] =
                    IF face[p].guest
                    THEN <<[type |-> "guestFace", data |-> TRUE]>> ELSE <<>>]_vars

\* the host's channel has just opened and the host held a face image
C12_Witness ==
  /\ game = "pong" /\ role["H"] = "host" /\ chan["H"] = "open"
  /\ face["H"].host
  /\ Len(queue["G"]) = 3
  /\ queue["G"][1].type = "hostFace"
  /\ queue["G"][2].type = "settings"
  /\ queue["G"][3] = CountdownMsg(COUNTDOWN_START)

\* C13: chase game, host.  Every world state installed by resetGameState or
\* by stepGame is legal: every segment of both snakes is inside the grid, no
\* snake holds a cell twice, the snakes share no cell and no score is
\* negative.  A step whose proposed head hits a wall, the snake's own body,
\* the other head or the other body leaves both snakes, the food and the
\* scores as they were.
C13_StatesLegal ==
  /\ [](game = "snake" =>
          LET w == gameState["H"]
              inGrid(snake) ==
                \A i \in 1..Len(snake) :
                  /\ snake[i].x >= 0 /\ snake[i].x < COLS
                  /\ snake[i].y >= 0 /\ snake[i].y < ROWS
              noRepeat(snake) ==
                \A i, j \in 1..Len(snake) : snake[i] = snake[j] => i = j
          IN /\ inGrid(w.snake1) /\ inGrid(w.snake2)
             /\ noRepeat(w.snake1) /\ noRepeat(w.snake2)
             /\ \A i \in 1..Len(w.snake1) : \A j \in 1..Len(w.snake2) :
                  w.snake1[i] # w.snake2[j]
             /\ w.score1 >= 0 /\ w.score2 >= 0)
  /\ [][(Snake_stepGame("H") /\ gamePhaseRef["H"] = "playing")
        => LET w == gameState["H"]
               n1 == [x |-> w.snake1[1].x + delta(dir1Ref["H"]).x,
                      y |-> w.snake1[1].y + delta(dir1Ref["H"]).y]
               n2 == [x |-> w.snake2[1].x + delta(dir2Ref["H"]).x,
                      y |-> w.snake2[1].y + delta(dir2Ref["H"]).y]
               out(c) == c.x < 0 \/ c.x >= COLS \/ c.y < 0 \/ c.y >= ROWS
               on(c, snake) == \E i \in 1..Len(snake) : snake[i] = c
               hit == \/ out(n1) \/ out(n2) \/ n1 = n2
                      \/ on(n1, w.snake1) \/ on(n2, w.snake2)
                      \/ on(n1, w.snake2) \/ on(n2, w.snake1)
           IN hit => /\ gameState'["H"].snake1 = w.snake1
                     /\ gameState'["H"].snake2 = w.snake2
                     /\ gameState'["H"].food = w.food
                     /\ gameState'["H"].score1 = w.score1
                     /\ gameState'["H"].score2 = w.score2
                     /\ scores'["H"] = scores["H"]]_vars

\* snake 1 has run up to the top wall and the step into it was refused
C13_Witness ==
  /\ game = "snake" /\ role["H"] = "host"
  /\ gameState["H"].phase = "over"
  /\ gameState["H"].dir1 = "up"
  /\ gameState["H"].snake1[1].y = 0

\* C15: chase game.  Once the host has reached the terminal phase the user
\* can restart: the restart button is offered on the host's page.
C15_RestartPossible ==
  (game = "snake" /\ role["H"] = "host" /\ mounted["H"]
     /\ gamePhaseRef["H"] = "over")
  => restartOffered("H")

\* C16: chase game.  The step that takes the host from "playing" to "over"
\* stops its interval timer, and while the host is "over" no step of the
\* session changes its snakes, food or scores (a control input from the guest
\* and a key press of the host only change the buffered directions) or sends
\* a snapshot.
C16_TerminalFreezesWorld ==
  /\ [](game = "snake" /\ gamePhaseRef["H"] = "over" => ~interval["H"])
  /\ [][(game = "snake" /\ role["H"] = "host" /\ role'["H"] = "host"
           /\ gamePhaseRef["H"] = "over")
        => /\ gameState'["H"].snake1 = gameState["H"].snake1
           /\ gameState'["H"].snake2 = gameState["H"].snake2
           /\ gameState'["H"].food = gameState["H"].food
           /\ gameState'["H"].score1 = gameState["H"].score1
           /\ gameState'["H"].score2 = gameState["H"].score2
           /\ scores'["H"] = scores["H"]
           /\ gamePhaseRef'["H"] = "over"
           /\ Len(queue'["G"]) <= Len(queue["G"])]_vars

\* the host is "over" and has pressed a key since: the buffered direction has
\* moved on, the world state has not
C16_Witness ==
  /\ game = "snake" /\ role["H"] = "host"
  /\ gamePhaseRef["H"] = "over" /\ ~interval["H"]
  /\ gameState["H"].dir1 = "right" /\ dir1Ref["H"] = "up"
  /\ gameState["H"].snake1[1] = Cell(11, 8)

\* C17: paddle game.  On a frame of the host in phase "playing" that moves
\* the ball beyond the right edge, score1 grows by exactly 1, score2 stays and
\* the ball is put back in the centre with leftward velocity; symmetrically
\* beyond the left edge; on every other frame both scores stay; no frame
\* changes both scores or one of them by more than 1.
C17_PointScoredOnExit ==
  [][(Pong_updateGame("H") /\ role["H"] = "host"
        /\ gamePhaseRef["H"] = "playing")
     => LET old == gameState["H"]
            new == gameState'["H"]
            right == old.ball.x + old.ball.vx > CANVAS_WIDTH * SCALE
            left == old.ball.x + old.ball.vx < 0
            centred == /\ new.ball.x = (CANVAS_WIDTH * SCALE) \div 2
                       /\ new.ball.y = (CANVAS_HEIGHT * SCALE) \div 2
        IN /\ right => /\ new.score1 = old.score1 + 1
                       /\ new.score2 = old.score2
                       /\ centred /\ new.ball.vx = -ballSpeed["H"]
           /\ left => /\ new.score2 = old.score2 + 1
                      /\ new.score1 = old.score1
                      /\ centred /\ new.ball.vx = ballSpeed["H"]
           /\ (~right /\ ~left)
                => new.score1 = old.score1 /\ new.score2 = old.score2
           /\ scores'["H"] = [score1 |-> new.score1, score2 |-> new.score2]]_vars

\* the ball has left on the right: one point for the left side, ball served
\* leftward from the centre
C17_Witness ==
  /\ game = "pong" /\ role["H"] = "host" /\ gamePhaseRef["H"] = "playing"
  /\ steps >= 1
  /\ gameState["H"].score1 = 1 /\ gameState["H"].score2 = 0
  /\ scores["H"] = [score1 |-> 1, score2 |-> 0]
  /\ gameState["H"].ball.x = (CANVAS_WIDTH * SCALE) \div 2
  /\ gameState["H"].ball.vx < 0

\* C18: in both games, while the host is "playing" and stays in the session,
\* no step lowers score1 or score2, in the world state or on display.  A step
\* that scores leaves the phase "playing" and the simulation timer running
\* and resets only the ball (paddle game: paddle 2 stays, paddle 1 moves at
\* most by the key held) or the food (chase game: each snake is its proposed
\* head followed by its old cells, all of them if it ate).
C18_ScoresNeverDrop ==
  [][(role["H"] = "host" /\ role'["H"] = "host"
        /\ gamePhaseRef["H"] = "playing")
     => LET old == gameState["H"]
            new == gameState'["H"]
            scored == new.score1 + new.score2 > old.score1 + old.score2
            kept(a, b) ==   \* b is a new head followed by cells of a
              /\ Len(b) \in {Len(a), Len(a) + 1}
              /\ \A i \in 2..Len(b) : b[i] = a[i - 1]
        IN /\ new.score1 >= old.score1 /\ new.score2 >= old.score2
           /\ scores'["H"].score1 >= scores["H"].score1
           /\ scores'["H"].score2 >= scores["H"].score2
           /\ scored
              => /\ gamePhaseRef'["H"] = "playing"
                 /\ game = "pong"
                    => /\ gameLoop'["H"]
                       /\ new.paddle2Y = old.paddle2Y
                       /\ new.paddle1Y - old.paddle1Y
                            \in (-(PADDLE_SPEED * SCALE))..(PADDLE_SPEED * SCALE)
                 /\ game = "snake"
                    => /\ interval'["H"]
                       /\ kept(old.snake1, new.snake1)
                       /\ kept(old.snake2, new.snake2)
                       /\ Len(new.snake1) + Len(new.snake2)
                            > Len(old.snake1) + Len(old.snake2)]_vars

\* the paddle game goes on after each side has scored once
C18_Witness ==
  /\ game = "pong" /\ role["H"] = "host"
  /\ gamePhaseRef["H"] = "playing" /\ gameLoop["H"]
  /\ steps >= 1
  /\ gameState["H"].score1 = 1 /\ gameState["H"].score2 = 1
  /\ scores["H"] = [score1 |-> 1, score2 |-> 1]

\* C19: decodeFromURL gives back the description that encodeForURL was given:
\* the token of every invite link decodes to the host's offer and every
\* answer code to the guest's answer, and no token holds "+", "/" or "="
\* (the sessions make compressed payloads of each length modulo 3).
C19_DecodeUndoesEncode ==
  /\ inviteLink["H"] # <<>>
     => LET token == afterKey(inviteLink["H"], QueryKey)
        IN /\ \A i \in 1..Len(token) : token[i] \notin {"+", "/", "="}
           /\ decodeFromURL(token) = localDescription(Offer, pc["H"])
  /\ answerCode["G"] # <<>>
     => LET token == answerCode["G"]
        IN /\ \A i \in 1..Len(token) : token[i] \notin {"+", "/", "="}
           /\ decodeFromURL(token) = localDescription(Answer, pc["G"])

\* the host has applied an answer whose code lost two "=" and holds both
\* substituted characters
C19_Witness ==
  /\ answered["H"] /\ pc["G"] = pc["H"]
  /\ Len(answerCode["G"]) % 4 = 2
  /\ \E i \in 1..Len(answerCode["G"]) : answerCode["G"][i] = "-"
  /\ \E i \in 1..Len(answerCode["G"]) : answerCode["G"][i] = "_"
  /\ answerToken(answerInput["H"]) = answerCode["G"]

\* C20: a token that does not decode changes the status only.  In
\* processAnswer the status becomes the error text while role, phase, the
\* connection, the channel and answerInput stay; in the offer effect the
\* status becomes the invalid-link text while role, phase, connection and
\* channel stay.  After an error only processAnswer changes the status again
\* (nothing retries by itself), and processAnswer with the guest's code for
\* this connection applies the answer whatever happened before.
C20_DecodeFailureOnlyReported ==
  [][/\ (processAnswer("H")
           /\ decodeFromURL(answerToken(answerInput["H"])) = DecodeError)
        => /\ status'["H"] = "Chyba pri spracovani odpovede"
           /\ UNCHANGED <<role, gamePhase, gamePhaseRef, pc, chan, connected,
                          answerInput, inviteLink, answered>>
     /\ \A data \in Links :
          ((Pong_urlOffer("G", data) \/ Snake_urlOffer("G", data))
             /\ decodeFromURL(data) = DecodeError)
          => /\ status'["G"] \in {"Neplatny invite link", "Neplatny link"}
             /\ UNCHANGED <<role, gamePhase, gamePhaseRef, pc, chan,
                            connected, pending, answerCode>>
     /\ (status["H"] = "Chyba pri spracovani odpovede"
           /\ status'["H"] # status["H"])
        => processAnswer("H")
     /\ (processAnswer("H") /\ ~answered["H"]
           /\ answerCode["G"] # <<>> /\ pc["G"] = pc["H"]
           /\ answerToken(answerInput["H"]) = answerCode["G"])
        => /\ answered'["H"]
           /\ status'["H"] \in {"Odpoved prijata, pripajam sa...",
                                "Odpoved prijata, cakam na spojenie..."}]_vars

\* after a refused paste the host has the guest's code in the field, the
\* connection still waiting for its answer
C20_Witness ==
  /\ status["H"] = "Chyba pri spracovani odpovede"
  /\ role["H"] = "host" /\ pc["H"] # 0 /\ chan["H"] = "connecting"
  /\ ~answered["H"]
  /\ answerCode["G"] # <<>> /\ pc["G"] = pc["H"]
  /\ answerInput["H"] = answerCode["G"]

\* C21: when the platform rejects the negotiation in createGame or
\* handleIncomingOffer, the page reports it in the status and is back in
\* idle with no role and no connection, so that a new attempt can start.
C21_RejectionReturnsToIdle ==
  [][\A p \in Peers :
       negotiation_rejected(p)
         => /\ role'[p] = "none"
            /\ gamePhase'[p] = "idle" /\ gamePhaseRef'[p] = "idle"
            /\ pc'[p] = 0
            /\ status'[p] \notin {status[p], "Vytvaram hru...",
                                  "Aplikujem ponuku od hostitela...",
                                  "Pripajam sa k hostovi..."}]_vars

\* C22: the step of endSession leaves the page with role "none", phase
\* "idle", no channel and no connection, an empty invite link, answer code
\* and answer field, scores 0 : 0 and the world as at the start: in the paddle
\* game the ball in the centre and both paddles in the middle, in the chase
\* game both snakes on their starting cells heading right and left.
C22_EndSessionClearsAll ==
  [][\A p \in Peers :
       (Pong_endSession(p) \/ Snake_endSession(p))
         => /\ role'[p] = "none"
            /\ gamePhase'[p] = "idle" /\ gamePhaseRef'[p] = "idle"
            /\ chan'[p] = "none" /\ pc'[p] = 0
            /\ inviteLink'[p] = <<>> /\ answerCode'[p] = <<>>
            /\ answerInput'[p] = <<>>
            /\ scores'[p] = [score1 |-> 0, score2 |-> 0]
            /\ gameState'[p].score1 = 0 /\ gameState'[p].score2 = 0
            /\ game = "pong"
               => /\ gameState'[p].ball.x = PongInitialState.ball.x
                  /\ gameState'[p].ball.y = PongInitialState.ball.y
                  /\ gameState'[p].paddle1Y = PongInitialState.paddle1Y
                  /\ gameState'[p].paddle2Y = PongInitialState.paddle2Y
            /\ game = "snake"
               => /\ gameState'[p].snake1 = InitialSnake1
                  /\ gameState'[p].snake2 = InitialSnake2
                  /\ gameState'[p].dir1 = "right"
                  /\ gameState'[p].dir2 = "left"
                  /\ gameState'[p].phase = "idle"]_vars

\* C23: whenever the data channel is open on both pages, the page that
\* created the connection is "host" and the page that accepted the offer is
\* "guest": exactly one host and one guest.
C23_OneHostOneGuest ==
  (chan["H"] = "open" /\ chan["G"] = "open")
    => /\ role["H"] = "host" /\ role["G"] = "guest"
       /\ inviteLink["H"] # <<>> /\ answerCode["G"] # <<>>
       /\ pc["H"] = pc["G"]

\* both ends open and the game under way
C23_Witness ==
  /\ chan["H"] = "open" /\ chan["G"] = "open"
  /\ connected["H"] /\ connected["G"]
  /\ gamePhaseRef["H"] = "playing" /\ gamePhaseRef["G"] = "playing"
  /\ role["H"] = "host" /\ role["G"] = "guest"

\* C24: waitForICE always completes: a page that waits in createGame or
\* handleIncomingOffer gets past the wait and then holds its token, the
\* invite link on the host and the answer code on the guest.
C24_WaitForICECompletes ==
  /\ (pending["H"] # 0) ~> (pending["H"] = 0 /\ inviteLink["H"] # <<>>)
  /\ (pending["G"] # 0) ~> (pending["G"] = 0 /\ answerCode["G"] # <<>>)

\* both pages are past their wait and hold their tokens
C24_Witness ==
  /\ pending["H"] = 0 /\ pending["G"] = 0
  /\ pc["H"] # 0 /\ pc["G"] = pc["H"]
  /\ inviteLink["H"] = linkOf(encodeForURL(localDescription(Offer, pc["H"])))
  /\ answerCode["G"] = encodeForURL(localDescription(Answer, pc["G"]))

\* C25: a simulation tick that the host runs in phase "playing" with its
\* channel open and the guest still there sends exactly one message, the
\* snapshot of the world state that the tick has produced.
C25_OneSnapshotPerTick ==
  [][((Pong_updateGame("H") \/ Snake_stepGame("H"))
        /\ role["H"] = "host" /\ gamePhaseRef["H"] = "playing"
        /\ chan["H"] = "open" /\ net)
     => queue'["G"] =
          Append(queue["G"],
                 [type |-> "gameState", state |-> gameState'["H"]])]_vars

\* two ticks have run and their two snapshots are on the way, the later one
\* with the host's present world
C25_Witness ==
  /\ role["H"] = "host" /\ chan["H"] = "open" /\ net
  /\ steps = 2 /\ Len(queue["G"]) = 2
  /\ queue["G"][1].type = "gameState"
  /\ queue["G"][2] = [type |-> "gameState", state |-> gameState["H"]]
  /\ queue["G"][1] # queue["G"][2]

C27_RolesRespected ==
  [][\/ \E p \in Peers : \E m \in StrayMessages : peerStray(p, m)
     \/ \A p \in Peers :
          LET q == Other(p)
              old == Len(queue[q])
              sent == IF Len(queue'[q]) >= old
                           /\ SubSeq(queue'[q], 1, old) = queue[q]
                      THEN SubSeq(queue'[q], old + 1, Len(queue'[q]))
                      ELSE <<>>
              stray == queue[p] # <<>>
                       /\ \/ Head(queue[p]).type = "gameState"
                               /\ role[p] = "host"
                          \/ Head(queue[p]).type = "input"
                               /\ role[p] = "guest"
          IN /\ \A i \in 1..Len(sent) :
                  /\ role[p] = "guest" =>
                       sent[i].type \notin {"gameState", "phase", "settings"}
                  /\ role[p] = "host" => sent[i].type # "input"
             /\ ((Pong_onmessage(p) \/ Snake_onmessage(p)) /\ stray)
                  => /\ gameState'[p] = gameState[p]
                     /\ scores'[p] = scores[p]
                     /\ dir1Ref'[p] = dir1Ref[p]
                     /\ dir2Ref'[p] = dir2Ref[p]
                     /\ queue'[p] = Tail(queue[p])]_vars

\* a host whose next message is a state-snapshot while its own snapshot is in
\* flight to the guest, whose next message is a control input
C27_Witness ==
  /\ role["H"] = "host" /\ role["G"] = "guest"
  /\ chan["H"] = "open" /\ chan["G"] = "open"
  /\ queue["H"] # <<>> /\ Head(queue["H"]).type = "gameState"
  /\ Len(queue["G"]) = 2 /\ queue["G"][1].type = "input"
  /\ queue["G"][2].type = "gameState"

\* C28: paddle game, host side.  In every reachable state both paddle offsets
\* of the host's world state lie between 0 and CANVAS_HEIGHT - PADDLE_HEIGHT,
\* whatever the order of the host's frames and the control inputs it receives.
C28_PaddlesInsideCourt ==
  \A p \in Peers :
    (game = "pong" /\ role[p] = "host")
      => /\ 0 <= gameState[p].paddle1Y
         /\ gameState[p].paddle1Y <= Px(CANVAS_HEIGHT) - Px(PADDLE_HEIGHT)
         /\ 0 <= gameState[p].paddle2Y
         /\ gameState[p].paddle2Y <= Px(CANVAS_HEIGHT) - Px(PADDLE_HEIGHT)

\* the host has run a frame with the up key held and paddle 1 on the top
\* boundary, paddle 2 on the bottom boundary
C28_Witness ==
  /\ game = "pong" /\ role["H"] = "host" /\ steps > 0
  /\ "ArrowUp" \in keys["H"]
  /\ gameState["H"].paddle1Y = 0
  /\ gameState["H"].paddle2Y = Px(CANVAS_HEIGHT) - Px(PADDLE_HEIGHT)

\* C29: paddle game.  A movement request made while the paddle is closer to
\* the boundary than one PADDLE_SPEED step leaves the paddle offset unchanged:
\* a host frame with only the up (down) key held, and a control input "up"
\* ("down") handled by the host.
C29_MoveBeyondBoundaryRejected ==
  [][\A p \in Peers :
       LET top == 0
           bottom == Px(CANVAS_HEIGHT) - Px(PADDLE_HEIGHT)
           y1 == gameState[p].paddle1Y
           y2 == gameState[p].paddle2Y
       IN (game = "pong" /\ role[p] = "host")
            => /\ (Pong_updateGame(p) /\ keys[p] = {"ArrowUp"}
                     /\ y1 - Px(PADDLE_SPEED) < top)
                    => gameState'[p].paddle1Y = y1
               /\ (Pong_updateGame(p) /\ keys[p] = {"ArrowDown"}
                     /\ y1 + Px(PADDLE_SPEED) > bottom)
                    => gameState'[p].paddle1Y = y1
               /\ (Pong_onmessage(p) /\ Head(queue[p]).type = "input"
                     /\ Head(queue[p]).direction = "up"
                     /\ y2 - Px(PADDLE_SPEED) < top)
                    => gameState'[p].paddle2Y = y2
               /\ (Pong_onmessage(p) /\ Head(queue[p]).type = "input"
                     /\ Head(queue[p]).direction = "down"
                     /\ y2 + Px(PADDLE_SPEED) > bottom)
                    => gameState'[p].paddle2Y = y2]_vars

\* C30: chase game.  In every state committed by resetGameState or stepGame
\* the food cell lies inside the grid and on no segment of either snake, and
\* for the snakes of that state placeFood returns only free cells of the grid,
\* and at least one whenever a free cell exists.
C30_FoodOnFreeCell ==
  \A p \in Peers :
    game = "snake"
      => LET state == gameState[p]
             occupied == Cells(state.snake1) \cup Cells(state.snake2)
             drawn == placeFood(state.snake1, state.snake2)
         IN /\ 0 <= state.food.x /\ state.food.x < COLS
            /\ 0 <= state.food.y /\ state.food.y < ROWS
            /\ state.food \notin occupied
            /\ drawn \subseteq AllCells \ occupied
            /\ (AllCells \ occupied # {}) => drawn # {}

\* the host's snake 1 has eaten in a step: it has grown, the point is counted
\* and the food has been drawn again
C30_Witness ==
  /\ game = "snake" /\ role["H"] = "host" /\ steps > 0
  /\ gameState["H"].score1 = 1
  /\ Len(gameState["H"].snake1) = Len(InitialSnake1) + 1
  /\ gameState["H"].snake1[1] = Cell(5, 8)

\* C31: chase game.  The step timer is started by the countdown tick whose
\* value is 0 on the host and by nothing else, the handle intervalRef holds
\* that one timer, and a step timer runs only on a peer whose role is host and
\* whose phase is "playing".
C31_StepTimerOnlyWhilePlaying ==
  /\ [](\A p \in Peers :
          interval[p] => /\ game = "snake"
                         /\ role[p] = "host"
                         /\ gamePhaseRef[p] = "playing")
  /\ [][\A p \in Peers :
          /\ (~interval[p] /\ interval'[p])
               => /\ Snake_tick(p)
                  /\ countdownTimer[p] = 0
                  /\ role[p] = "host"
          /\ (Snake_tick(p) /\ countdownTimer[p] = 0 /\ role[p] = "host")
               => interval'[p]
          /\ (Snake_tick(p) /\ countdownTimer[p] > 0) => ~interval'[p]]_vars

\* the host's step timer runs after the countdown has ended
C31_Witness ==
  /\ game = "snake" /\ role["H"] = "host" /\ interval["H"]
  /\ countdown["H"] = 0 /\ countdownTimer["H"] = NoTimer
  /\ gamePhaseRef["H"] = "playing"

\* C32: chase game, host side.  For each snake the direction a stepGame
\* applies is never the opposite of the direction the previous stepGame
\* applied (kept in state.dir1 / state.dir2), whatever key presses and control
\* inputs came in between.
C32_NoReversalBetweenSteps ==
  [][\A p \in Peers :
       (Snake_stepGame(p) /\ role[p] = "host" /\ gamePhaseRef[p] = "playing"
          /\ steps > 0)
         => /\ dir1Ref[p] # opposite(gameState[p].dir1)
            /\ dir2Ref[p] # opposite(gameState[p].dir2)]_vars

\* C33: chase game, guest side.  A direction key pressed by the guest while the
\* channel is open is forwarded to the host as a control input whenever it is
\* not the reverse of snake 2's heading in the guest's latest snapshot.
C33_GuestKeysForwarded ==
  [][\A p \in Peers : \A d \in Directions :
       (Snake_handleKeyDown(p, d) /\ role[p] = "guest"
          /\ channelOpen(p) /\ net
          /\ d # opposite(gameState[p].dir2))
         => queue'[Other(p)] =
              Append(queue[Other(p)], [type |-> "input", direction |-> d])]_vars

\* C34: on each peer the phase used for rendering (gamePhase) equals the phase
\* used by the logic (gamePhaseRef) after every handler, in both games.
C34_RenderedPhaseIsLogicPhase ==
  \A p \in Peers : gamePhase[p] = gamePhaseRef[p]

\* C35: chase game.  The phase field inside every state-snapshot a stepGame of
\* the host broadcasts equals the host's phase when it is sent: "playing" for
\* an ordinary step, "over" for the terminal step.
C35_SnapshotCarriesHostPhase ==
  [][\A p \in Peers :
       LET q == Other(p)
       IN (Snake_stepGame(p) /\ role[p] = "host"
             /\ Len(queue'[q]) = Len(queue[q]) + 1)
            => queue'[q][Len(queue'[q])].state.phase = gamePhaseRef'[p]]_vars

\* C36: paddle game, host side.  Whenever the host's phase is "playing" the
\* magnitude of the ball's horizontal velocity equals the configured speed.
C36_BallMovesAtConfiguredSpeed ==
  \A p \in Peers :
    (game = "pong" /\ role[p] = "host" /\ gamePhaseRef[p] = "playing")
      => Abs(gameState[p].ball.vx) = ballSpeed[p]

\* C37: chase game.  In every committed state each score is the length of its
\* snake less the three cells it starts with; a step of the host that does not
\* end the game lengthens a snake by one cell and raises its score by 1 exactly
\* when the snake's new head is the food cell, and otherwise keeps both.
C37_ScoreIsGrowth ==
  /\ [](\A p \in Peers :
          game = "snake"
            => /\ gameState[p].score1 = Len(gameState[p].snake1) - 3
               /\ gameState[p].score2 = Len(gameState[p].snake2) - 3)
  /\ [][\A p \in Peers :
          (Snake_stepGame(p) /\ gamePhaseRef[p] = "playing")
            => LET old == gameState[p]
                   new == gameState'[p]
                   ate1 == advance(old.snake1, dir1Ref[p]) = old.food
                   ate2 == advance(old.snake2, dir2Ref[p]) = old.food
                   gain(b) == IF b /\ new.phase # "over" THEN 1 ELSE 0
               IN /\ Len(new.snake1) = Len(old.snake1) + gain(ate1)
                  /\ new.score1 = old.score1 + gain(ate1)
                  /\ Len(new.snake2) = Len(old.snake2) + gain(ate2)
                  /\ new.score2 = old.score2 + gain(ate2)]_vars

\* the host's snake 2 has eaten in a step: one cell longer, one point
C37_Witness ==
  /\ game = "snake" /\ role["H"] = "host" /\ steps > 0
  /\ gameState["H"].score2 = 1 /\ Len(gameState["H"].snake2) = 4
  /\ gameState["H"].score1 = 0 /\ Len(gameState["H"].snake1) = 3

=============================================================================
